---- MODULE Spec2Model ----
(***************************************************************************)
(* In-Page Bookmarks: the bookmark store and message dispatcher            *)
(* (src/src/lib/background-logic.ts) behind the background listener and    *)
(* the chrome.storage.local adapter (src/unnamed/part_006, 1191-1215).     *)
(*                                                                         *)
(* Every message delivered to the listener is one process p.  handleMessage*)
(* runs to its first await in the delivering task; each storage round trip *)
(* is two steps, the storage area performing the operation and, later, the *)
(* callback resuming the handler.  Callbacks of different requests may     *)
(* fire in any order; a continuation runs to its next await atomically.    *)
(* chrome.storage hands out and takes copies of values, so a list a        *)
(* handler holds is never aliased with the stored one.  Neither promise of *)
(* the adapter rejects and handleMessage has no throwing statement, so the *)
(* listener's catch branch has no step here.                               *)
(*                                                                         *)
(* Spec draws every message; ValidSpec draws the well-formed requests      *)
(* only; FairSpec adds the fairness of the storage callbacks to runs about *)
(* one page.                                                               *)
(*                                                                         *)
(* The page side is the two functions the popup injects into the tab       *)
(* (src/unnamed/part_006, 606-1187): capture reads a position from the     *)
(* document and restore applies one.  A document is a window, the viewer   *)
(* application object and a sequence of elements; each injected function   *)
(* runs to its end in one step and a callback it hands to setTimeout runs  *)
(* in a later step.  CodecSpec applies the position encoding to drawn      *)
(* pairs, PlainSpec runs the calls on plain documents, PdfSpec on          *)
(* documents of a paged viewer, and ViewerSpec on documents with a viewer  *)
(* application, with the fairness of the timer.                            *)
(*                                                                         *)
(* The popup (src/unnamed/part_006, 42-470) starts after initializePopup   *)
(* has loaded the list and setupEventListeners has run.  Each click is one *)
(* handler, a record of ops, whose awaits are separate steps; the messages *)
(* it sends wait in outbox until the background listener takes them.      *)
(* SaveSpec runs saves and deletes against the store, JumpSpec runs        *)
(* captures and jumps against a tab whose page may reject the injection,   *)
(* return nothing or stop answering, with the fairness of the steps the    *)
(* browser takes.  SortSpec applies sortBookmarksByTimestamp               *)
(* (src/unnamed/part_005, 9-13) to drawn lists.                            *)
(***************************************************************************)
EXTENDS Integers, Sequences, FiniteSets, TLC

\* ---- bounds -------------------------------------------------------------
MaxReq == 2        \* messages delivered to the listener in one run

Procs == 1..MaxReq

\* ---- values -------------------------------------------------------------
\* Two page URLs that differ only by a fragment, and the missing/empty url.
Urls == {"p", "p#s"}
NoUrl == ""
NoName == ""
NoId == 0

STORAGE_PREFIX == "bookmarks:"

\* The keys of chrome.storage.local the requests can name.
Keys == {STORAGE_PREFIX \o u : u \in Urls}

storageKeyNormalized(url) == STORAGE_PREFIX \o "p"

storageKey(url) == STORAGE_PREFIX \o url

\* A scrollPosition payload as it arrives in the JSON message: a number n,
\* a string s, or nothing.
NumberValue(n) == [t |-> "number", n |-> n, s |-> ""]
StringValue(s) == [t |-> "string", n |-> 0, s |-> s]
Undefined == [t |-> "undefined", n |-> 0, s |-> ""]

\* What the save button can put in data.name / data.scrollPosition.
SaveData ==
  { [name |-> "Intro", scrollPosition |-> NumberValue(1234)],
    [name |-> NoName,  scrollPosition |-> Undefined],
    [name |-> NoName,  scrollPosition |-> StringValue("abc")],
    [name |-> "Back",  scrollPosition |-> NumberValue(-5)] }

\* JS Number(x): a number is itself, undefined and non-numeric text are NaN,
\* numeric text is parsed, the empty string is 0.
NaN == [nan |-> TRUE, n |-> 0]
Num(n) == [nan |-> FALSE, n |-> n]

ToNumber(x) ==
  CASE x.t = "number" -> Num(x.n)
    [] x.t = "undefined" -> NaN
    [] x.t = "string" /\ x.s = "" -> Num(0)
    [] x.t = "string" /\ x.s = "12" -> Num(12)
    [] OTHER -> NaN

\* JS  r || 0  on a number: NaN and 0 are falsy.
OrZero(r) == IF r.nan \/ r.n = 0 THEN 0 ELSE r.n

\* JS  name || 'Untitled'
OrUntitled(name) == IF name = NoName THEN "Untitled" ELSE name

\* A value held under a storage key: nothing, a list, or something else.
Absent == [kind |-> "absent", list |-> <<>>]
NotAList == [kind |-> "other", list |-> <<>>]
ListValue(l) == [kind |-> "list", list |-> l]

NoBookmark == [id |-> NoId, name |-> "", scrollPosition |-> 0, url |-> NoUrl, timestamp |-> 0]
NoMsg == [action |-> "", url |-> NoUrl, name |-> NoName, scrollPosition |-> Undefined, bookmarkId |-> NoId]
NoResp == [pending |-> TRUE]

\* Bookmarks of page "p" saved by an earlier session of the extension.
OldBookmarks ==
  << [id |-> 1, name |-> "Old1", scrollPosition |-> 100, url |-> "p", timestamp |-> 0],
     [id |-> 2, name |-> "Old2", scrollPosition |-> 200, url |-> "p", timestamp |-> 0] >>
FirstNewId == Len(OldBookmarks) + 1

\* The storage area when the service worker starts: a fresh install, or a
\* profile holding a list for "p" and a value that is not a list for "p#s".
InitStores ==
  { [k \in Keys |-> Absent],
    [k \in Keys |-> IF k = STORAGE_PREFIX \o "p" THEN ListValue(OldBookmarks) ELSE NotAList] }

VARIABLES
  store,      \* chrome.storage.local, restricted to the bookmark keys
  nextId,     \* number of ids generateId has returned, plus one
  msg,        \* msg[p]: the message of request p
  pc,         \* pc[p]: where request p is suspended
  got,        \* got[p]: the value the pending storage.get resolves with
  bookmarks,  \* handleMessage's local  bookmarks
  bookmark,   \* handleMessage's local  bookmark  (saveBookmark)
  next,       \* handleMessage's local  next      (deleteBookmark)
  resp,       \* the object passed to sendResponse
  sent,       \* number of sendResponse calls for request p
  \* history of the run, read by the properties only
  calls,      \* calls[p]: storage.get and storage.set calls request p made
  before,     \* before[p]: the storage area when request p was delivered
  alone,      \* alone[p]: no other request was in flight while p was
  missed,     \* missed[p]: requests for p's url whose write landed after p's read
  lastWriter  \* lastWriter[u]: the request for url u that wrote last, or 0

hist == <<calls, before, alone, missed, lastWriter>>

\* The page side: the functions getScrollViaInjection and
\* scrollToPositionViaInjection inject into the tab (part_006, 606-1187).
VARIABLES
  dom,        \* the document the injected function runs against
  timers,     \* the callbacks registered with setTimeout and not yet run
  inj,        \* the last injected call: function, argument, result, page at the call
  codec       \* an (page, offset) pair, the value encoded from it and the pair decoded

pageVars == <<dom, timers, inj, codec>>

\* The popup (part_006, 42-470), the tab it talks to and the list handed to
\* sortBookmarksByTimestamp (part_005).
VARIABLES
  tab,            \* what the tab lets the popup do: inject, message, or neither
  popupBookmarks, \* popup.ts: let bookmarks
  ops,            \* ops[k]: the k-th handler a click started and where it is suspended
  outbox,         \* the messages handed to chrome.runtime.sendMessage, in order
  sorter          \* the array handed to sortBookmarksByTimestamp and what it returned

uiVars == <<tab, popupBookmarks, ops, outbox, sorter>>

vars == <<store, nextId, msg, pc, got, bookmarks, bookmark, next, resp, sent,
          calls, before, alone, missed, lastWriter, pageVars, uiVars>>

\* No popup is open in a run of the store or of the page side.
NoTab == [access |-> "open", listener |-> FALSE, frozen |-> FALSE]
NoSort == [step |-> "idle", given |-> <<>>, input |-> <<>>, output |-> <<>>]
UiIdle ==
  /\ tab = NoTab
  /\ popupBookmarks = <<>>
  /\ ops = <<>>
  /\ outbox = <<>>
  /\ sorter = NoSort

\* No tab is involved in a run of the store: the page side stays as it is.
\* assigned counts the assignments to PDFViewerApplication.page.
NoApp == [exists |-> FALSE, hasPage |-> FALSE, page |-> 0, assigned |-> 0]
BlankPage ==
  [href |-> "about:blank", app |-> NoApp, els |-> <<>>,
   win |-> [scrollY |-> 0, scrollHeight |-> 0, innerHeight |-> 0, innerWidth |-> 0]]
\* 0 stands for null: no element, the window.
None == 0
NoCapture == [done |-> FALSE, reloaded |-> FALSE, isPDF |-> FALSE, via |-> "",
              value |-> Num(0), target |-> None, at |-> BlankPage]
NoCall == [fn |-> "none", arg |-> 0, isPDF |-> FALSE, via |-> "", value |-> Num(0),
           target |-> None, at |-> BlankPage, cap |-> NoCapture]
NoCodec == [step |-> "idle", page |-> 1, offset |-> 0, v |-> 0, pageNum |-> 1, pageScroll |-> 0]
PageIdle ==
  /\ dom = BlankPage
  /\ timers = <<>>
  /\ inj = NoCall
  /\ codec = NoCodec

\* ---- helpers ------------------------------------------------------------
\* filter with === in place of !==
FilterOutIdInverted(l, id) == SelectSeq(l, LAMBDA b : b.id = id)

RECURSIVE FilterOutId(_, _)
FilterOutId(l, id) ==
  IF l = <<>> THEN <<>>
  ELSE IF Head(l).id # id THEN <<Head(l)>> \o FilterOutId(Tail(l), id)
       ELSE FilterOutId(Tail(l), id)

IdsOf(l) == {l[i].id : i \in 1..Len(l)}

\* Array.isArray(stored) ? stored : []
ArrayOrEmpty(stored) == IF stored.kind = "list" THEN stored.list ELSE <<>>

\* every call returns the id of a bookmark stored earlier
generateIdRepeated == OldBookmarks[1].id

generateId == nextId

UrlOf(p) == msg[p].url
KeyOf(p) == storageKey(UrlOf(p))

InFlight(p) == pc[p] \in {"get", "got", "set", "wrote"}

\* new Date(): time is counted in the bookmarks built so far in this
\* session; no operation of the store reads a timestamp.
Now == nextId - FirstNewId

\* ---- initial state ------------------------------------------------------
Init ==
  /\ store \in InitStores
  /\ nextId = FirstNewId
  /\ msg = [p \in Procs |-> NoMsg]
  /\ pc = [p \in Procs |-> "new"]
  /\ got = [p \in Procs |-> Absent]
  /\ bookmarks = [p \in Procs |-> <<>>]
  /\ bookmark = [p \in Procs |-> NoBookmark]
  /\ next = [p \in Procs |-> <<>>]
  /\ resp = [p \in Procs |-> NoResp]
  /\ sent = [p \in Procs |-> 0]
  /\ calls = [p \in Procs |-> [get |-> 0, set |-> 0]]
  /\ before = [p \in Procs |-> store]
  /\ alone = [p \in Procs |-> TRUE]
  /\ missed = [p \in Procs |-> {}]
  /\ lastWriter = [u \in Urls |-> 0]
  /\ PageIdle
  /\ UiIdle

\* ---- the listener and the synchronous prefix of handleMessage -----------
\* Messages arrive in the order of their numbers.
CanDeliver(p) == pc[p] = "new" /\ (IF p = 1 THEN TRUE ELSE pc[p - 1] # "new")

\* The history a delivery records.
Delivered(p) ==
  /\ before' = [before EXCEPT ![p] = store]
  /\ alone' = [q \in DOMAIN pc |-> IF q = p THEN \A r \in DOMAIN pc : ~InFlight(r)
                                   ELSE alone[q] /\ ~InFlight(q)]
  /\ UNCHANGED <<missed, lastWriter>>

\* the early return is not passed on to sendResponse
AnswerNowSilent(p, m, r) ==
  /\ msg' = [msg EXCEPT ![p] = m]
  /\ pc' = [pc EXCEPT ![p] = "done"]
  /\ resp' = [resp EXCEPT ![p] = r]
  /\ Delivered(p)
  /\ UNCHANGED <<uiVars, pageVars, store, nextId, got, bookmarks, bookmark, next, calls, sent>>

\* Answer in the delivering task: handleMessage returned without awaiting.
AnswerNow(p, m, r) ==
  /\ msg' = [msg EXCEPT ![p] = m]
  /\ pc' = [pc EXCEPT ![p] = "done"]
  /\ resp' = [resp EXCEPT ![p] = r]
  /\ sent' = [sent EXCEPT ![p] = @ + 1]
  /\ Delivered(p)
  /\ UNCHANGED <<uiVars, pageVars, store, nextId, got, bookmarks, bookmark, next, calls>>

\* Suspend at  await storage.get(key) .
AwaitGet(p, m) ==
  /\ msg' = [msg EXCEPT ![p] = m]
  /\ pc' = [pc EXCEPT ![p] = "get"]
  /\ calls' = [calls EXCEPT ![p].get = @ + 1]
  /\ Delivered(p)
  /\ UNCHANGED <<uiVars, pageVars, store, nextId, got, bookmarks, bookmark, next, resp, sent>>

\* saveBookmark with data {name: d.name, scrollPosition: d.scrollPosition, url: u}
ReceiveSave(p, u, d) ==
  /\ CanDeliver(p)
  /\ LET m == [NoMsg EXCEPT !.action = "saveBookmark", !.url = u,
                            !.name = d.name, !.scrollPosition = d.scrollPosition]
     IN IF u = NoUrl
        THEN AnswerNow(p, m, [success |-> FALSE, error |-> "Missing url"])
        ELSE AwaitGet(p, m)

\* getBookmarks with url u
ReceiveGet(p, u) ==
  /\ CanDeliver(p)
  /\ LET m == [NoMsg EXCEPT !.action = "getBookmarks", !.url = u]
     IN IF u = NoUrl
        THEN AnswerNow(p, m, [bookmarks |-> <<>>])
        ELSE AwaitGet(p, m)

\* the guard tests  !url  only
ReceiveDeleteUnchecked(p, u, i) ==
  /\ CanDeliver(p)
  /\ LET m == [NoMsg EXCEPT !.action = "deleteBookmark", !.url = u, !.bookmarkId = i]
     IN IF u = NoUrl
        THEN AnswerNow(p, m, [success |-> FALSE, error |-> "Missing url or bookmarkId"])
        ELSE AwaitGet(p, m)

\* deleteBookmark with url u and bookmarkId i
ReceiveDelete(p, u, i) ==
  /\ CanDeliver(p)
  /\ LET m == [NoMsg EXCEPT !.action = "deleteBookmark", !.url = u, !.bookmarkId = i]
     IN IF u = NoUrl \/ i = NoId
        THEN AnswerNow(p, m, [success |-> FALSE, error |-> "Missing url or bookmarkId"])
        ELSE AwaitGet(p, m)

\* a message with no action (a = "") or with an action the switch has no case for
ReceiveOther(p, a) ==
  /\ CanDeliver(p)
  /\ LET m == [NoMsg EXCEPT !.action = a, !.url = "p"]
     IN IF a = ""
        THEN AnswerNow(p, m, [success |-> FALSE, error |-> "Missing action"])
        ELSE AnswerNow(p, m, [success |-> FALSE, error |-> "Unknown action"])

\* ---- chrome.storage.local -----------------------------------------------
\* The storage area performs the read of a pending get.
StorageGet(p) ==
  /\ pc[p] = "get"
  /\ got' = [got EXCEPT ![p] = store[KeyOf(p)]]
  /\ pc' = [pc EXCEPT ![p] = "got"]
  /\ missed' = [missed EXCEPT ![p] = {}]
  /\ UNCHANGED <<uiVars, pageVars, store, nextId, msg, bookmarks, bookmark, next, resp, sent>>
  /\ UNCHANGED <<calls, before, alone, lastWriter>>

\* The history a write records.
Written(p) ==
  /\ missed' = [q \in DOMAIN pc |->
                  IF q # p /\ pc[q] \in {"got", "set"} /\ UrlOf(q) = UrlOf(p)
                  THEN missed[q] \cup {p} ELSE missed[q]]
  /\ lastWriter' = [lastWriter EXCEPT ![UrlOf(p)] = p]
  /\ UNCHANGED <<calls, before, alone>>

\* a save is appended to the list stored at the time of the write
StorageSetAppend(p) ==
  /\ pc[p] = "set"
  /\ store' = [store EXCEPT ![KeyOf(p)] =
                 ListValue(IF msg[p].action = "saveBookmark"
                           THEN Append(ArrayOrEmpty(store[KeyOf(p)]), bookmark[p])
                           ELSE next[p])]
  /\ pc' = [pc EXCEPT ![p] = "wrote"]
  /\ Written(p)
  /\ UNCHANGED <<uiVars, pageVars, nextId, msg, got, bookmarks, bookmark, next, resp, sent>>

\* a delete filters the list stored at the time of the write
StorageSetRefilter(p) ==
  /\ pc[p] = "set"
  /\ store' = [store EXCEPT ![KeyOf(p)] =
                 ListValue(IF msg[p].action = "saveBookmark"
                           THEN bookmarks[p]
                           ELSE FilterOutId(ArrayOrEmpty(store[KeyOf(p)]), msg[p].bookmarkId))]
  /\ pc' = [pc EXCEPT ![p] = "wrote"]
  /\ Written(p)
  /\ UNCHANGED <<uiVars, pageVars, nextId, msg, got, bookmarks, bookmark, next, resp, sent>>

\* The storage area performs the write of a pending set.
StorageSet(p) ==
  /\ pc[p] = "set"
  /\ store' = [store EXCEPT ![KeyOf(p)] =
                 ListValue(IF msg[p].action = "saveBookmark" THEN bookmarks[p] ELSE next[p])]
  /\ pc' = [pc EXCEPT ![p] = "wrote"]
  /\ Written(p)
  /\ UNCHANGED <<uiVars, pageVars, nextId, msg, got, bookmarks, bookmark, next, resp, sent>>

\* ---- continuations of handleMessage -------------------------------------
\* bookmarks.unshift(bookmark) in place of push
SaveBuildUnshift(p) ==
  /\ pc[p] = "got"
  /\ msg[p].action = "saveBookmark"
  /\ LET b == [id |-> generateId,
               name |-> OrUntitled(msg[p].name),
               scrollPosition |-> OrZero(ToNumber(msg[p].scrollPosition)),
               url |-> msg[p].url,
               timestamp |-> Now]
     IN /\ bookmark' = [bookmark EXCEPT ![p] = b]
        /\ bookmarks' = [bookmarks EXCEPT ![p] = <<b>> \o ArrayOrEmpty(got[p])]
  /\ nextId' = nextId + 1
  /\ pc' = [pc EXCEPT ![p] = "set"]
  /\ calls' = [calls EXCEPT ![p].set = @ + 1]
  /\ UNCHANGED <<uiVars, pageVars, store, msg, got, next, resp, sent, before, alone, missed, lastWriter>>

\* saveBookmark, from the get callback to  await storage.set .
SaveBuild(p) ==
  /\ pc[p] = "got"
  /\ msg[p].action = "saveBookmark"
  /\ LET b == [id |-> generateId,
               name |-> OrUntitled(msg[p].name),
               scrollPosition |-> OrZero(ToNumber(msg[p].scrollPosition)),
               url |-> msg[p].url,
               timestamp |-> Now]
     IN /\ bookmark' = [bookmark EXCEPT ![p] = b]
        /\ bookmarks' = [bookmarks EXCEPT ![p] = Append(ArrayOrEmpty(got[p]), b)]
  /\ nextId' = nextId + 1
  /\ pc' = [pc EXCEPT ![p] = "set"]
  /\ calls' = [calls EXCEPT ![p].set = @ + 1]
  /\ UNCHANGED <<uiVars, pageVars, store, msg, got, next, resp, sent, before, alone, missed, lastWriter>>

\* a stored value that is not a list is reported as an error
GetAnswerStrict(p) ==
  /\ pc[p] = "got"
  /\ msg[p].action = "getBookmarks"
  /\ bookmarks' = [bookmarks EXCEPT ![p] = ArrayOrEmpty(got[p])]
  /\ resp' = [resp EXCEPT ![p] = IF got[p].kind = "other"
                                  THEN [success |-> FALSE, error |-> "Invalid data"]
                                  ELSE [bookmarks |-> ArrayOrEmpty(got[p])]]
  /\ sent' = [sent EXCEPT ![p] = @ + 1]
  /\ pc' = [pc EXCEPT ![p] = "done"]
  /\ UNCHANGED <<uiVars, pageVars, store, nextId, msg, got, bookmark, next, hist>>

\* getBookmarks, from the get callback to sendResponse.
GetAnswer(p) ==
  /\ pc[p] = "got"
  /\ msg[p].action = "getBookmarks"
  /\ bookmarks' = [bookmarks EXCEPT ![p] = ArrayOrEmpty(got[p])]
  /\ resp' = [resp EXCEPT ![p] = [bookmarks |-> ArrayOrEmpty(got[p])]]
  /\ sent' = [sent EXCEPT ![p] = @ + 1]
  /\ pc' = [pc EXCEPT ![p] = "done"]
  /\ UNCHANGED <<uiVars, pageVars, store, nextId, msg, got, bookmark, next, hist>>

\* deleteBookmark, from the get callback to  await storage.set .
DeleteFilter(p) ==
  /\ pc[p] = "got"
  /\ msg[p].action = "deleteBookmark"
  /\ bookmarks' = [bookmarks EXCEPT ![p] = ArrayOrEmpty(got[p])]
  /\ next' = [next EXCEPT ![p] = FilterOutId(ArrayOrEmpty(got[p]), msg[p].bookmarkId)]
  /\ pc' = [pc EXCEPT ![p] = "set"]
  /\ calls' = [calls EXCEPT ![p].set = @ + 1]
  /\ UNCHANGED <<uiVars, pageVars, store, nextId, msg, got, bookmark, resp, sent>>
  /\ UNCHANGED <<before, alone, missed, lastWriter>>

\* saveBookmark, from the set callback to sendResponse.
SaveAnswer(p) ==
  /\ pc[p] = "wrote"
  /\ msg[p].action = "saveBookmark"
  /\ resp' = [resp EXCEPT ![p] = [success |-> TRUE, bookmark |-> bookmark[p]]]
  /\ sent' = [sent EXCEPT ![p] = @ + 1]
  /\ pc' = [pc EXCEPT ![p] = "done"]
  /\ UNCHANGED <<uiVars, pageVars, store, nextId, msg, got, bookmarks, bookmark, next, hist>>

\* sendResponse is called without awaiting storage.set
DeleteAnswerUnwritten(p) ==
  /\ pc[p] \in {"set", "wrote"}
  /\ msg[p].action = "deleteBookmark"
  /\ resp' = [resp EXCEPT ![p] = [success |-> TRUE]]
  /\ sent' = [sent EXCEPT ![p] = @ + 1]
  /\ pc' = [pc EXCEPT ![p] = "done"]
  /\ UNCHANGED <<uiVars, pageVars, store, nextId, msg, got, bookmarks, bookmark, next, hist>>

\* deleteBookmark, from the set callback to sendResponse.
DeleteAnswer(p) ==
  /\ pc[p] = "wrote"
  /\ msg[p].action = "deleteBookmark"
  /\ resp' = [resp EXCEPT ![p] = [success |-> TRUE]]
  /\ sent' = [sent EXCEPT ![p] = @ + 1]
  /\ pc' = [pc EXCEPT ![p] = "done"]
  /\ UNCHANGED <<uiVars, pageVars, store, nextId, msg, got, bookmarks, bookmark, next, hist>>

\* The messages a run draws from.  The named payloads of SaveData are saved
\* for "p" and the unnamed ones for "p#s"; a delete names an id stored under
\* its url, the id 1, or none.
SaveInputs ==
  {<<u, d>> \in (Urls \cup {NoUrl}) \X SaveData :
     /\ u = "p" => d.name # NoName
     /\ u = "p#s" => d.name = NoName
     /\ u = NoUrl => d.scrollPosition = Undefined}
DeleteInputs ==
  {<<u, i>> \in (Urls \cup {NoUrl}) \X (0..(nextId - 1)) :
     /\ u = NoUrl => i = 1
     /\ i = NoId => u = "p"
     /\ u \in Urls => i \in {NoId, 1} \cup IdsOf(store[storageKey(u)].list)}
OtherActions == {"", "scrollToPosition"}

Next ==
  \/ \E p \in Procs, x \in SaveInputs : ReceiveSave(p, x[1], x[2])
  \/ \E p \in Procs, u \in Urls \cup {NoUrl} : ReceiveGet(p, u)
  \/ \E p \in Procs, x \in DeleteInputs : ReceiveDelete(p, x[1], x[2])
  \/ \E p \in Procs, a \in OtherActions : ReceiveOther(p, a)
  \/ \E p \in Procs : StorageGet(p)
  \/ \E p \in Procs : StorageSet(p)
  \/ \E p \in Procs : SaveBuild(p)
  \/ \E p \in Procs : GetAnswer(p)
  \/ \E p \in Procs : DeleteFilter(p)
  \/ \E p \in Procs : SaveAnswer(p)
  \/ \E p \in Procs : DeleteAnswer(p)

Spec == Init /\ [][Next]_vars

\* One step of request p after its delivery: the storage area performing
\* its pending operation, or the callback resuming handleMessage.
Progress(p) ==
  \/ StorageGet(p) \/ StorageSet(p)
  \/ SaveBuild(p) \/ GetAnswer(p) \/ DeleteFilter(p)
  \/ SaveAnswer(p) \/ DeleteAnswer(p)

\* Every storage operation is eventually performed and every storage
\* callback eventually fires; nothing obliges a message to arrive.
Fairness == \A p \in Procs : WF_vars(Progress(p))

\* The runs of well-formed requests only: every message has an action of the
\* switch and the fields its case requires.
ValidNext ==
  \/ \E p \in Procs, x \in SaveInputs : x[1] # NoUrl /\ ReceiveSave(p, x[1], x[2])
  \/ \E p \in Procs, u \in Urls : ReceiveGet(p, u)
  \/ \E p \in Procs, x \in DeleteInputs :
       x[1] # NoUrl /\ x[2] # NoId /\ ReceiveDelete(p, x[1], x[2])
  \/ \E p \in Procs : Progress(p)

ValidSpec == Init /\ [][ValidNext]_vars

\* The runs the progress property is checked on: the same operations, with
\* the messages drawn for the page "p" only and one payload per action.
LiveNext ==
  \/ \E p \in Procs, u \in {"p", NoUrl} :
       ReceiveSave(p, u, [name |-> "Intro", scrollPosition |-> NumberValue(1234)])
  \/ \E p \in Procs, u \in {"p", NoUrl} : ReceiveGet(p, u)
  \/ \E p \in Procs, x \in {<<"p", 1>>, <<"p", NoId>>, <<NoUrl, 1>>} :
       ReceiveDelete(p, x[1], x[2])
  \/ \E p \in Procs, a \in OtherActions : ReceiveOther(p, a)
  \/ \E p \in Procs : Progress(p)

FairSpec == Init /\ [][LiveNext]_vars /\ Fairness

\* ---- properties ---------------------------------------------------------
\* The list a reader makes of a stored value, and the exact key of a url.
ListOf(v) == IF v.kind = "list" THEN v.list ELSE <<>>
ExactKey(u) == "bookmarks:" \o u
Saved(p) == /\ msg[p].action = "saveBookmark"
            /\ pc[p] = "done"
            /\ DOMAIN resp[p] = {"success", "bookmark"}
            /\ resp[p].success
SetStep(p) == pc[p] = "set" /\ pc'[p] = "wrote"
GetStep(p) == pc[p] = "get" /\ pc'[p] = "got"

\* C1 case: request p is a successful save, request p+1 a getBookmarks for
\* the same url, and neither overlapped any other request.
SaveThenGet(p) ==
  /\ p + 1 \in Procs
  /\ Saved(p) /\ alone[p]
  /\ msg[p + 1].action = "getBookmarks" /\ msg[p + 1].url = msg[p].url
  /\ pc[p + 1] = "done" /\ alone[p + 1]

\* C1: with no other request in flight, getBookmarks{url:U} after a
\* successful saveBookmark for U returns the bookmarks U had before the save
\* followed by the answered record; that record has url U, the supplied
\* numeric scrollPosition, the supplied name ('Untitled' for an empty or
\* missing one) and an id no stored or generated bookmark has.
C1_SaveThenGet ==
  \A p \in Procs :
    SaveThenGet(p) =>
      LET prev == ListOf(before[p][ExactKey(msg[p].url)])
          b == resp[p].bookmark
      IN /\ resp[p + 1] = [bookmarks |-> Append(prev, b)]
         /\ (prev = <<>> => resp[p + 1].bookmarks = <<b>>)
         /\ b.url = msg[p].url
         /\ (msg[p].scrollPosition.t = "number" => b.scrollPosition = msg[p].scrollPosition.n)
         /\ b.name = (IF msg[p].name = "" THEN "Untitled" ELSE msg[p].name)
         /\ b.id # NoId
         /\ \A k \in Keys : b.id \notin IdsOf(ListOf(before[p][k]))
         /\ \A q \in Procs \ {p} : bookmark[q].id # b.id

C1_Witness ==
  \E p \in Procs :
    /\ SaveThenGet(p)
    /\ Len(ListOf(before[p][ExactKey(msg[p].url)])) = 2
    /\ msg[p].scrollPosition.t = "number"
    /\ Len(resp[p + 1].bookmarks) = 3

\* C2 case: request p is a deleteBookmark with url and bookmarkId that
\* overlapped no other request and is answered.
DeleteAlone(p) ==
  /\ msg[p].action = "deleteBookmark"
  /\ msg[p].url # NoUrl /\ msg[p].bookmarkId # NoId
  /\ pc[p] = "done" /\ alone[p]

\* C2: with no other request in flight, deleteBookmark{url:U, bookmarkId:I}
\* answers {success:true} and leaves under U exactly the entries whose id is
\* not I, in their original order (the same contents when no entry has id I).
C2_DeleteExactly ==
  \A p \in Procs :
    DeleteAlone(p) =>
      LET prev == ListOf(before[p][ExactKey(msg[p].url)])
          Keep(b) == b.id # msg[p].bookmarkId
      IN /\ resp[p] = [success |-> TRUE]
         /\ lastWriter[msg[p].url] = p =>
              /\ store[ExactKey(msg[p].url)].kind = "list"
              /\ store[ExactKey(msg[p].url)].list = SelectSeq(prev, Keep)
              /\ (msg[p].bookmarkId \notin IdsOf(prev) =>
                    store[ExactKey(msg[p].url)].list = prev)

C2_Witness ==
  \E p \in Procs :
    /\ DeleteAlone(p)
    /\ lastWriter[msg[p].url] = p
    /\ LET prev == ListOf(before[p][ExactKey(msg[p].url)])
       IN /\ Len(prev) = 3
          /\ prev[2].id = msg[p].bookmarkId
          /\ Len(store[ExactKey(msg[p].url)].list) = 2

\* C3: getBookmarks is never answered with an error: the answer is
\* {bookmarks: L} with L the list read under the url's key, [] when the value
\* read is absent or not a list, and [] without any storage read when the
\* request has no url.
C3_GetNeverErrors ==
  \A p \in Procs :
    (msg[p].action = "getBookmarks" /\ pc[p] = "done") =>
      IF msg[p].url = NoUrl
      THEN resp[p] = [bookmarks |-> <<>>] /\ calls[p].get = 0
      ELSE /\ DOMAIN resp[p] = {"bookmarks"}
           /\ calls[p].get = 1
           /\ (got[p].kind = "list" => resp[p].bookmarks = got[p].list)
           /\ (got[p].kind # "list" => resp[p].bookmarks = <<>>)
           /\ (alone[p] => resp[p].bookmarks = ListOf(before[p][ExactKey(msg[p].url)]))

C3_Witness ==
  \E p \in Procs :
    /\ msg[p].action = "getBookmarks" /\ pc[p] = "done"
    /\ msg[p].url # NoUrl
    /\ got[p].kind = "other"
    /\ resp[p] = [bookmarks |-> <<>>]

\* C4: in every reachable state no two entries of the list stored under one
\* url key have the same id.
C4_UniqueIds ==
  \A k \in Keys :
    \A i, j \in 1..Len(ListOf(store[k])) :
      i # j => store[k].list[i].id # store[k].list[j].id

C4_Witness ==
  \E k \in Keys, p, q \in Procs :
    /\ msg[p].action = "saveBookmark" /\ pc[p] \in {"wrote", "done"}
    /\ msg[q].action = "deleteBookmark" /\ pc[q] \in {"wrote", "done"}
    /\ ~alone[p] /\ ~alone[q]
    /\ Len(ListOf(store[k])) >= 2
    /\ bookmark[p] = store[k].list[Len(store[k].list)]

\* C5 case: p and q are answered saves for one url that read the same stored
\* value, q's write landed between p's read and p's write, and p's write is
\* the last one for the url.
LostUpdate(p, q) ==
  /\ p # q
  /\ Saved(p) /\ Saved(q)
  /\ msg[p].url = msg[q].url
  /\ got[p] = got[q]
  /\ q \in missed[p]
  /\ lastWriter[msg[p].url] = p

\* C5: two saves for one url that both read before either wrote both answer
\* {success:true}, and the stored list is the list they read plus the later
\* writer's bookmark only: it gained one record, not two.
C5_LostUpdate ==
  \A p, q \in Procs :
    LostUpdate(p, q) =>
      LET pre == ListOf(got[p])
          now == store[ExactKey(msg[p].url)]
      IN /\ now.kind = "list"
         /\ Len(now.list) < Len(pre) + 2
         /\ now.list = Append(pre, resp[p].bookmark)
         /\ resp[q].bookmark.id \notin IdsOf(now.list)

C5_Witness ==
  \E p, q \in Procs :
    /\ LostUpdate(p, q)
    /\ Len(store[ExactKey(msg[p].url)].list) = Len(ListOf(got[p])) + 1

\* C6: last writer wins.  When a request writes after another request for
\* the same url wrote since its read, the stored list becomes exactly what it
\* computed from its own read: the read plus its bookmark for a save, the
\* read without the deleted id for a delete.
C6_LastWriterWins ==
  [][\A p \in Procs :
       (SetStep(p) /\ missed[p] # {}) =>
         LET own == ListOf(got[p])
             Keep(b) == b.id # msg[p].bookmarkId
         IN store'[ExactKey(msg[p].url)] =
              [kind |-> "list",
               list |-> IF msg[p].action = "saveBookmark"
                        THEN Append(own, bookmark[p])
                        ELSE SelectSeq(own, Keep)]]_vars

C6_Witness ==
  \E p, q \in Procs :
    /\ msg[p].action = "deleteBookmark" /\ pc[p] \in {"wrote", "done"}
    /\ Saved(q)
    /\ q \in missed[p]
    /\ lastWriter[msg[p].url] = p
    /\ msg[p].bookmarkId \in IdsOf(ListOf(got[p]))
    /\ resp[q].bookmark.id \notin IdsOf(store[ExactKey(msg[p].url)].list)

\* C7 case: a delivered request that fails validation.
Invalid(p) ==
  /\ pc[p] # "new"
  /\ \/ msg[p].action \notin {"saveBookmark", "getBookmarks", "deleteBookmark"}
     \/ msg[p].action = "saveBookmark" /\ msg[p].url = NoUrl
     \/ msg[p].action = "deleteBookmark" /\ (msg[p].url = NoUrl \/ msg[p].bookmarkId = NoId)

\* C7: a request with a missing, empty or unknown action, a saveBookmark
\* without url and a deleteBookmark without url or bookmarkId are answered
\* {success:false, error} ('Unknown action' for an unknown action) in the
\* delivering task, with no storage.get and no storage.set call.
C7_ValidationFailure ==
  \A p \in Procs :
    Invalid(p) =>
      /\ pc[p] = "done"
      /\ DOMAIN resp[p] = {"success", "error"}
      /\ resp[p].success = FALSE
      /\ resp[p].error # ""
      /\ (msg[p].action \notin {"", "saveBookmark", "getBookmarks", "deleteBookmark"}
            => resp[p].error = "Unknown action")
      /\ calls[p] = [get |-> 0, set |-> 0]
      /\ got[p] = Absent
      /\ \A u \in Urls : lastWriter[u] # p

C7_Witness ==
  \E p, q \in Procs :
    /\ Invalid(p) /\ msg[p].action = "deleteBookmark" /\ msg[p].bookmarkId = NoId
    /\ Invalid(q) /\ msg[q].action = "scrollToPosition"
    /\ resp[q].error = "Unknown action"

\* C8: every delivered message is answered exactly once, with the object
\* handleMessage returned, and the answer is eventually sent whatever other
\* requests are in flight.
C8_AnsweredOnce ==
  /\ [](\A p \in Procs :
          /\ sent[p] <= 1
          /\ (sent[p] = 1 <=> pc[p] = "done")
          /\ (pc[p] = "done" => ("success" \in DOMAIN resp[p] \/ "bookmarks" \in DOMAIN resp[p])))
  /\ \A p \in Procs : (pc[p] # "new") ~> (sent[p] = 1)

C8_Witness ==
  \E p, q \in Procs :
    /\ p # q
    /\ sent[p] = 1 /\ calls[p].set = 1 /\ ~alone[p]
    /\ InFlight(q)

\* C9 as claimed: every bookmark written to the store has a non-negative
\* integer scrollPosition.
C9_NonNegativePosition ==
  \A k \in Keys :
    \A i \in 1..Len(ListOf(store[k])) :
      store[k].list[i].scrollPosition \in Nat

\* C10: a request for url U reads the value under 'bookmarks:' + U and
\* writes that key only, nothing else writes the store, every stored
\* bookmark lies under the key of its own url, and a save whose url no other
\* request wrote since its read is in the stored list of that url whatever
\* requests for other urls did meanwhile.
C10_ExactKeyFrame ==
  [][/\ \A p \in Procs : GetStep(p) => got'[p] = store[ExactKey(msg[p].url)]
     /\ \A k \in Keys :
          store'[k] # store[k] => \E p \in Procs : SetStep(p) /\ k = ExactKey(msg[p].url)
     /\ \A u \in Urls :
          \A i \in 1..Len(ListOf(store'[ExactKey(u)])) :
            store'[ExactKey(u)].list[i].url = u
     /\ \A p \in Procs :
          (/\ msg'[p].action = "saveBookmark"
           /\ msg'[p].url \in Urls
           /\ pc'[p] \in {"wrote", "done"}
           /\ missed'[p] = {}
           /\ lastWriter'[msg'[p].url] = p)
          => store'[ExactKey(msg'[p].url)] =
               [kind |-> "list", list |-> Append(ListOf(got'[p]), bookmark'[p])]]_vars

C10_Witness ==
  \E p, q \in Procs :
    /\ Saved(p) /\ Saved(q)
    /\ msg[p].url # msg[q].url
    /\ ~alone[p] /\ ~alone[q]
    /\ resp[p].bookmark \in {store[ExactKey(msg[p].url)].list[i] :
                               i \in 1..Len(store[ExactKey(msg[p].url)].list)}
    /\ resp[q].bookmark \in {store[ExactKey(msg[q].url)].list[i] :
                               i \in 1..Len(store[ExactKey(msg[q].url)].list)}


\* ==== the page side ======================================================
\* The store takes no step in the runs of the page side.
StoreIdle ==
  /\ store = [k \in Keys |-> Absent]
  /\ nextId = FirstNewId
  /\ msg = [p \in Procs |-> NoMsg]
  /\ pc = [p \in Procs |-> "new"]
  /\ got = [p \in Procs |-> Absent]
  /\ bookmarks = [p \in Procs |-> <<>>]
  /\ bookmark = [p \in Procs |-> NoBookmark]
  /\ next = [p \in Procs |-> <<>>]
  /\ resp = [p \in Procs |-> NoResp]
  /\ sent = [p \in Procs |-> 0]
  /\ calls = [p \in Procs |-> [get |-> 0, set |-> 0]]
  /\ before = [p \in Procs |-> store]
  /\ alone = [p \in Procs |-> TRUE]
  /\ missed = [p \in Procs |-> {}]
  /\ lastWriter = [u \in Urls |-> 0]

storeVars == <<store, nextId, msg, pc, got, bookmarks, bookmark, next, resp, sent, hist>>

\* ---- the position codec -------------------------------------------------
MaxPage == 3       \* pages of the document a viewer shows

\* The number of offset units the encoding reserves for one page.
PageStride == 10000

\* Math.floor(a / b) and a % b of JavaScript for b > 0: the remainder takes
\* the sign of the dividend.
Floor(a, b) == a \div b
Rem(a, b) == IF a >= 0 THEN a % b ELSE 0 - ((0 - a) % b)

\* const combinedPosition = (page - 1) * 10000 + scrollTop;
combinedPositionFromPage(page, scrollTop) == page * PageStride + scrollTop

combinedPosition(page, scrollTop) == (page - 1) * PageStride + scrollTop

\* const pageNum = Math.floor(pos / 10000) + 1;
pageNumZeroBased(pos) == Floor(pos, PageStride)

pageNum(pos) == Floor(pos, PageStride) + 1

\* const pageScroll = pos % 10000;
pageScrollPastFirst(pos) == IF pos >= PageStride THEN pos - PageStride ELSE pos

pageScroll(pos) == Rem(pos, PageStride)

\* The offsets the codec is tried on: both ends of a page's range, values
\* around the powers of ten below it, and offsets past the range.
CodecOffsets ==
  {0, 1, 9, 10, 99, 100, 999, 1000, 4999, 5000, 9998, PageStride - 1,
   PageStride, PageStride + 1, 2 * PageStride - 1, 2 * PageStride, 2 * PageStride + 5000}

CodecInit ==
  /\ StoreIdle
  /\ UiIdle
  /\ dom = BlankPage
  /\ timers = <<>>
  /\ inj = NoCall
  /\ codec \in {[NoCodec EXCEPT !.step = "input", !.page = p, !.offset = o] :
                  p \in 1..MaxPage, o \in CodecOffsets}

\* What capture computes from the viewer's page and its container's offset.
Encode ==
  /\ codec.step = "input"
  /\ codec' = [codec EXCEPT !.step = "encoded",
                            !.v = combinedPosition(codec.page, codec.offset)]
  /\ UNCHANGED <<uiVars, storeVars, dom, timers, inj>>

\* What restore computes from the value it is handed.
Decode ==
  /\ codec.step = "encoded"
  /\ codec' = [codec EXCEPT !.step = "decoded",
                            !.pageNum = pageNum(codec.v),
                            !.pageScroll = pageScroll(codec.v)]
  /\ UNCHANGED <<uiVars, storeVars, dom, timers, inj>>

CodecNext == Encode \/ Decode

CodecSpec == CodecInit /\ [][CodecNext]_vars

\* C11: for every page >= 1 and every offset with 0 <= offset < 10000, the
\* pair restore decodes from the value capture encodes for (page, offset) is
\* (page, offset) again.
C11_CodecRoundTrip ==
  (codec.step = "decoded" /\ codec.page >= 1
     /\ 0 <= codec.offset /\ codec.offset < 10000)
  => (codec.pageNum = codec.page /\ codec.pageScroll = codec.offset)

\* A pair of a later page and the last offset of the range came back.
C11_Witness ==
  /\ codec.step = "decoded"
  /\ codec.page > 1
  /\ codec.offset = 9999
  /\ codec.v = (codec.page - 1) * 10000 + 9999
  /\ codec.pageNum = codec.page


\* ---- the document -------------------------------------------------------
MaxEls == 2        \* elements of the document besides html and body

\* An element with the attributes the selectors read, its overflow style,
\* its heights, its rendered box and the document it embeds: doc is "none"
\* (contentDocument and contentWindow are missing), "denied" (reading
\* contentWindow.document throws) or "open".  scrollTop is the element's
\* offset and docTop the offset of the embedded document's root.
El(tag, type, id, cls, src, ovY, ovX, sh, ch, w, h, doc) ==
  [tag |-> tag, type |-> type, id |-> id, cls |-> cls, src |-> src,
   overflowY |-> ovY, overflowX |-> ovX, scrollHeight |-> sh, clientHeight |-> ch,
   width |-> w, height |-> h, doc |-> doc, scrollTop |-> 0, docTop |-> 0]

PDF_TYPE == "application/pdf"
CHROME_PDF_TYPE == "application/x-google-chrome-pdf"

\* The elements a plain document is composed of, in document order: a side
\* bar whose unscrolled score is exactly 50, the content pane of a
\* single-page app, a menu that scores above 50 only when scrolled far, an
\* article that overflows without scrolling, a box with overflow auto whose
\* content fits, and a frame holding a document of its own.
PlainKinds ==
  << El("div", "", "", "side", "", "hidden", "auto", 3250, 500, 250, 400, "none"),
     El("div", "", "", "main", "", "auto", "hidden", 2000, 500, 800, 500, "none"),
     El("div", "", "", "menu", "", "scroll", "hidden", 900, 400, 200, 400, "none"),
     El("div", "", "", "article", "", "visible", "visible", 2000, 500, 800, 500, "none"),
     El("div", "", "", "box", "", "auto", "auto", 500, 500, 800, 500, "none"),
     El("iframe", "", "", "", "frame.html", "visible", "visible", 300, 300, 400, 300, "open") >>

\* The elements of a document a paged viewer shows, in document order.
PdfKinds ==
  << El("div", "", "viewer", "pdfViewer", "", "auto", "auto", 12000, 800, 1000, 800, "none"),
     El("div", "", "", "viewerContainer", "", "auto", "auto", 12000, 800, 1000, 800, "none"),
     El("embed", CHROME_PDF_TYPE, "", "", "", "visible", "visible", 800, 800, 1000, 800, "none"),
     El("embed", PDF_TYPE, "", "", "", "visible", "visible", 800, 800, 1000, 800, "open"),
     El("object", PDF_TYPE, "", "", "", "visible", "visible", 800, 800, 1000, 800, "denied"),
     El("embed", "", "plugin", "", "", "auto", "auto", 3000, 800, 1000, 800, "none"),
     El("iframe", "", "", "", "doc.pdf", "visible", "visible", 800, 800, 1000, 800, "none"),
     El("div", "", "", "page", "", "auto", "hidden", 2000, 500, 800, 500, "none"),
     El("div", "", "", "main", "", "auto", "hidden", 2000, 500, 800, 500, "none") >>

\* The elements of kinds at the positions S, in document order.
RECURSIVE PickFrom(_, _, _)
PickFrom(kinds, S, i) ==
  IF i > Len(kinds) THEN <<>>
  ELSE (IF i \in S THEN <<kinds[i]>> ELSE <<>>) \o PickFrom(kinds, S, i + 1)

Bodies(kinds) ==
  {PickFrom(kinds, S, 1) : S \in {T \in SUBSET (1..Len(kinds)) : Cardinality(T) <= MaxEls}}

\* window.location.href, and the substrings the scripts look for in it.
PlainHref == "https://ex.com/a"
PdfHref == "https://ex.com/a.pdf"
MimeHref == "https://ex.com/get?type=application/pdf"
ExtensionHref == "chrome-extension://viewer/pdf/index.html"

\* s.includes(needle) and s.startsWith(prefix) on the strings of the model;
\* both are case-sensitive.
Includes(str, needle) ==
  <<str, needle>> \in
    { <<PdfHref, ".pdf">>, <<PdfHref, "pdf">>,
      <<MimeHref, "application/pdf">>, <<MimeHref, "pdf">>,
      <<ExtensionHref, "pdf">>,
      <<"doc.pdf", "pdf">>,
      <<"viewer", "viewer">>, <<"viewerContainer", "viewer">>,
      <<"pdfViewer", "pdf">>, <<"page", "page">> }
StartsWith(str, prefix) ==
  <<str, prefix>> \in { <<ExtensionHref, "chrome-extension://">> }

\* window.PDFViewerApplication: missing, present before a document is
\* opened (page is undefined), or showing a page.
AppLoading == [exists |-> TRUE, hasPage |-> FALSE, page |-> 0, assigned |-> 0]
AppAt(n) == [exists |-> TRUE, hasPage |-> TRUE, page |-> n, assigned |-> 0]

\* The viewport, and a document that fits it or is taller.
Viewport(docHeight) ==
  [scrollY |-> 0, scrollHeight |-> docHeight, innerHeight |-> 800, innerWidth |-> 1000]
ShortWindow == Viewport(800)
TallWindow == Viewport(30000)

\* ---- selectors ----------------------------------------------------------
\* The indices of the elements of d a selector matches, in document order;
\* querySelector answers None when nothing matches.
First(S) == IF S = {} THEN None ELSE CHOOSE i \in S : \A j \in S : i <= j

EmbedPdf(e) == e.tag = "embed" /\ e.type = PDF_TYPE
EmbedChromePdf(e) == e.tag = "embed" /\ e.type = CHROME_PDF_TYPE
ObjectPdf(e) == e.tag = "object" /\ e.type = PDF_TYPE
IdPlugin(e) == e.id = "plugin"
IframePdf(e) == e.tag = "iframe" /\ Includes(e.src, "pdf")
ClassPdfViewer(e) == e.cls = "pdfViewer"
IdViewer(e) == e.id = "viewer"
IdHasViewer(e) == Includes(e.id, "viewer")
ClassHasViewer(e) == Includes(e.cls, "viewer")
ClassHasPdf(e) == Includes(e.cls, "pdf")
ClassHasPage(e) == Includes(e.cls, "page")
IdHasPage(e) == Includes(e.id, "page")

Matches(e, selector) ==
  CASE selector = "embed[type=application/pdf]" -> EmbedPdf(e)
    [] selector = "embed[type=application/x-google-chrome-pdf]" -> EmbedChromePdf(e)
    [] selector = "object[type=application/pdf]" -> ObjectPdf(e)
    [] selector = "#plugin" -> IdPlugin(e)
    [] selector = "iframe[src*=pdf]" -> IframePdf(e)
    [] selector = ".pdfViewer" -> ClassPdfViewer(e)
    [] selector = "#viewer" -> IdViewer(e)
    [] selector = "[id=viewer]" -> IdViewer(e)
    [] selector = "[id*=viewer]" -> IdHasViewer(e)
    [] selector = "[class*=viewer]" -> ClassHasViewer(e)
    [] selector = "[class*=pdf]" -> ClassHasPdf(e)
    [] selector = "[class*=page]" -> ClassHasPage(e)
    [] selector = "[id*=page]" -> IdHasPage(e)
    [] selector = "embed" -> e.tag = "embed"
    [] selector = "object" -> e.tag = "object"
    [] selector = "iframe" -> e.tag = "iframe"
    [] selector = "*" -> TRUE

\* document.querySelectorAll(selectors) and document.querySelector(selector).
querySelectorAll(d, selectors) ==
  {i \in 1..Len(d.els) : \E selector \in selectors : Matches(d.els[i], selector)}
querySelector(d, selector) == First(querySelectorAll(d, {selector}))


\* ---- detectPDF ----------------------------------------------------------
Some(checks) == \E k \in DOMAIN checks : checks[k]

\* The checks of the function capture injects.
captureChecks(d) ==
  [urlCheck |-> Includes(d.href, ".pdf") \/ Includes(d.href, "application/pdf"),
   embedCheck |-> querySelector(d, "embed[type=application/pdf]") # None,
   chromePdfCheck |-> querySelector(d, "embed[type=application/x-google-chrome-pdf]") # None,
   objectCheck |-> querySelector(d, "object[type=application/pdf]") # None,
   pluginCheck |-> querySelector(d, "#plugin") # None,
   iframeCheck |-> querySelector(d, "iframe[src*=pdf]") # None,
   pdfjsGlobal |-> d.app.exists,
   pdfjsViewer |-> querySelector(d, ".pdfViewer") # None,
   viewerId |-> querySelector(d, "#viewer") # None,
   chromeExtension |-> StartsWith(d.href, "chrome-extension://") /\ Includes(d.href, "pdf")]

captureDetectPDFAll(d) == \A k \in DOMAIN captureChecks(d) : captureChecks(d)[k]

captureDetectPDF(d) == Some(captureChecks(d))

\* The function restore injects has its own copy.
restoreDetectPDF(d) ==
  LET pdfViewer == \/ querySelector(d, "embed[type=application/pdf]") # None
                   \/ querySelector(d, "embed[type=application/x-google-chrome-pdf]") # None
                   \/ querySelector(d, "object[type=application/pdf]") # None
                   \/ querySelector(d, "#plugin") # None
                   \/ querySelector(d, "iframe[src*=pdf]") # None
      urlIsPDF == Includes(d.href, ".pdf") \/ Includes(d.href, "application/pdf")
      hasPDFJS == \/ d.app.exists
                  \/ querySelector(d, ".pdfViewer") # None
                  \/ querySelector(d, "#viewer") # None
  IN pdfViewer \/ urlIsPDF \/ hasPDFJS

\* ---- findMainScrollableElement ------------------------------------------
\* Scores are kept in hundredths of a point; the boxes of the model are
\* chosen so that every division below is exact.
Points(n) == n * 100
Min(a, b) == IF a <= b THEN a ELSE b
Max(a, b) == IF a >= b THEN a ELSE b

\* The window scrolls the document and has been scrolled past 50.
WindowScrolled(d) == d.win.scrollY > 50 /\ d.win.scrollHeight > d.win.innerHeight

ScrollableOverflow(e) ==
  \/ e.overflowY = "auto" \/ e.overflowY = "scroll"
  \/ e.overflowX = "auto" \/ e.overflowX = "scroll"

\* The elements pushed to scrollableElements.
scrollableElementsAnyHeight(d) ==
  {i \in querySelectorAll(d, {"*"}) : ScrollableOverflow(d.els[i])}

scrollableElements(d) ==
  {i \in querySelectorAll(d, {"*"}) :
     ScrollableOverflow(d.els[i]) /\ d.els[i].scrollHeight > d.els[i].clientHeight}

\* item.score of an element, in hundredths.
score(d, e) ==
  LET scrollableArea == e.scrollHeight - e.clientHeight
      area == e.width * e.height
      viewportArea == d.win.innerWidth * d.win.innerHeight
  IN Min(Points(100), scrollableArea)
     + (IF e.scrollTop > 0 THEN Min(Points(200), e.scrollTop * 10) ELSE 0)
     + Min(Points(100), area \div 100)
     + Min(Points(50), ((area \div 100) * 10000) \div (viewportArea \div 100))

\* scrollableElements[0] after the stable sort by descending score.
HighestAscending(d, S) ==
  CHOOSE i \in S : \A j \in S :
    \/ score(d, d.els[i]) < score(d, d.els[j])
    \/ score(d, d.els[i]) = score(d, d.els[j]) /\ i <= j

Highest(d, S) ==
  CHOOSE i \in S : \A j \in S :
    \/ score(d, d.els[i]) > score(d, d.els[j])
    \/ score(d, d.els[i]) = score(d, d.els[j]) /\ i <= j

\* A copy that looks at the inner elements before the window.
findMainScrollableElementInnerFirst(d) ==
  IF scrollableElements(d) = {} THEN None
  ELSE LET best == Highest(d, scrollableElements(d))
       IN IF score(d, d.els[best]) > Points(50) THEN best ELSE None

\* The copy in the function capture injects.
findMainScrollableElement(d) ==
  IF WindowScrolled(d) THEN None
  ELSE IF scrollableElements(d) = {} THEN None
  ELSE LET best == Highest(d, scrollableElements(d))
       IN IF score(d, d.els[best]) > Points(50) THEN best ELSE None

\* The copy in the function restore injects.
restoreFindMainScrollableElement(d) ==
  IF WindowScrolled(d) THEN None
  ELSE IF scrollableElements(d) = {} THEN None
  ELSE LET best == Highest(d, scrollableElements(d))
       IN IF score(d, d.els[best]) > Points(50) THEN best ELSE None

\* ---- getScrollViaInjection: the injected function -----------------------
OrElse(a, b) == IF a # None THEN a ELSE b
Largest(S) == IF S = {} THEN 0 ELSE CHOOSE x \in S : \A y \in S : x >= y

\* window.pageYOffset || window.scrollY || documentElement.scrollTop ||
\* body.scrollTop || 0, in whatever order the operands come: all of them
\* read the one offset of the viewport, or 0.
windowScroll(d) == d.win.scrollY

\* Method 3: the offsets of the elements the container selectors match that
\* overflow and are scrolled; html (or body) carries the window's offset.
possibleContainers ==
  {"#viewer", ".pdfViewer", "#plugin", "[id*=viewer]", "[class*=viewer]", "[class*=pdf]",
   "embed", "object", "iframe"}
containerTops(d) ==
  {d.els[i].scrollTop : i \in {j \in querySelectorAll(d, possibleContainers) :
      d.els[j].scrollHeight > d.els[j].clientHeight /\ d.els[j].scrollTop > 0}}
  \cup (IF d.win.scrollHeight > d.win.innerHeight /\ d.win.scrollY > 0
        THEN {d.win.scrollY} ELSE {})

\* Method 4: the offset of the document the first PDF embed or object
\* holds, 0 when it holds none or the access throws.
pdfEmbed(d) == OrElse(querySelector(d, "embed[type=application/pdf]"), querySelector(d, "object[type=application/pdf]"))
embedScroll(d) ==
  IF pdfEmbed(d) # None /\ d.els[pdfEmbed(d)].doc = "open"
  THEN d.els[pdfEmbed(d)].docTop ELSE 0

\* The viewer element Method 1 of capture looks for.
captureViewer(d) ==
  OrElse(querySelector(d, ".pdfViewer"),
  OrElse(querySelector(d, "#viewer"),
  OrElse(querySelector(d, "[id=viewer]"), querySelector(d, "[class*=viewer]"))))

\* What the function returns, with the branch that returned (via) and the
\* element read (target, None for the window).
capture(d) ==
  LET viewer == captureViewer(d)
      region == findMainScrollableElement(d)
  IN IF captureDetectPDF(d) THEN
       IF d.app.exists /\ viewer # None THEN
         [isPDF |-> TRUE, via |-> "pdfjs", target |-> viewer,
          value |-> IF d.app.hasPage
                    THEN Num(combinedPosition(d.app.page, d.els[viewer].scrollTop))
                    ELSE NaN]
       ELSE IF querySelector(d, "embed[type=application/x-google-chrome-pdf]") # None THEN
         [isPDF |-> TRUE, via |-> "chromePdf", target |-> None,
          value |-> Num(Max(windowScroll(d), 0))]
       ELSE
         [isPDF |-> TRUE, via |-> "probes", target |-> None,
          value |-> Num(Max(Max(Largest(containerTops(d)), embedScroll(d)),
                            windowScroll(d)))]
     ELSE IF region # None THEN
       [isPDF |-> FALSE, via |-> "region", target |-> region,
        value |-> Num(d.els[region].scrollTop)]
     ELSE
       [isPDF |-> FALSE, via |-> "window", target |-> None,
        value |-> Num(windowScroll(d))]


\* ---- scrollToPositionViaInjection: the injected function ----------------
\* A scroller takes the offset the script hands it; what the browser makes
\* of an offset past the scrollable range is not part of the script.
SetScrollTopOfAll(d, i, top) ==
  [d EXCEPT !.els = [j \in DOMAIN d.els |-> [d.els[j] EXCEPT !.scrollTop = top]]]

SetScrollTop(d, i, top) == [d EXCEPT !.els[i].scrollTop = top]
SetDocTop(d, i, top) == [d EXCEPT !.els[i].docTop = top]
WindowScrollTo(d, top) == [d EXCEPT !.win.scrollY = top]

\* The callbacks handed to setTimeout: the scroll inside the viewer (200 ms)
\* and the read that verifies the scroll (500 ms).
ScrollLater(i, top) == [kind |-> "scroll", el |-> i, top |-> top]
VerifyLater == [kind |-> "verify", el |-> None, top |-> 0]

\* The viewer element Method 1 of restore looks for.
restoreViewer(d) == OrElse(querySelector(d, ".pdfViewer"), querySelector(d, "#viewer"))

\* Method 4 of restore.
viewerContainer(d) ==
  OrElse(querySelector(d, "#viewer"),
  OrElse(querySelector(d, ".pdfViewer"), querySelector(d, "#plugin")))

\* Method 5 of restore: the first element among the page-like ones that
\* overflows.
pageLike(d) ==
  First({i \in querySelectorAll(d, {"[class*=page]", "[id*=page]", "[class*=viewer]"}) :
           d.els[i].scrollHeight > d.els[i].clientHeight})

\* if (PDFViewerApplication.page !== pageNum) PDFViewerApplication.page = pageNum
NavigateAlways(d, n) == [d EXCEPT !.app.page = n, !.app.assigned = @ + 1]

Navigate(d, n) ==
  IF d.app.page # n THEN [d EXCEPT !.app.page = n, !.app.assigned = @ + 1] ELSE d

\* The page and the pending callbacks the function leaves, with the branch
\* taken (via) and the scroller it addressed (target, None for the window).
restore(d, pos) ==
  LET pdf == restoreDetectPDF(d)
      viewer == restoreViewer(d)
      embed == pdfEmbed(d)
      region == restoreFindMainScrollableElement(d)
  IN IF pdf /\ d.app.exists /\ d.app.hasPage /\ viewer # None THEN
       [isPDF |-> pdf, via |-> "pdfjs", target |-> viewer,
        dom |-> Navigate(d, pageNum(pos)),
        timers |-> <<ScrollLater(viewer, pageScroll(pos))>>]
     ELSE IF pdf /\ querySelector(d, "embed[type=application/x-google-chrome-pdf]") # None THEN
       [isPDF |-> pdf, via |-> "chromePdf", target |-> None,
        dom |-> WindowScrollTo(d, pos), timers |-> <<>>]
     ELSE IF pdf /\ embed # None /\ d.els[embed].doc = "open" THEN
       [isPDF |-> pdf, via |-> "embed", target |-> embed,
        dom |-> SetDocTop(d, embed, pos), timers |-> <<>>]
     ELSE IF pdf /\ viewerContainer(d) # None THEN
       [isPDF |-> pdf, via |-> "container", target |-> viewerContainer(d),
        dom |-> SetScrollTop(d, viewerContainer(d), pos), timers |-> <<>>]
     ELSE IF pdf /\ pageLike(d) # None THEN
       [isPDF |-> pdf, via |-> "pageLike", target |-> pageLike(d),
        dom |-> SetScrollTop(d, pageLike(d), pos), timers |-> <<>>]
     ELSE IF region # None THEN
       [isPDF |-> pdf, via |-> "region", target |-> region,
        dom |-> SetScrollTop(d, region, pos), timers |-> <<VerifyLater>>]
     ELSE
       [isPDF |-> pdf, via |-> "window", target |-> None,
        dom |-> WindowScrollTo(d, pos), timers |-> <<VerifyLater>>]

\* ---- the page and the calls made on it ----------------------------------
\* The offsets a scroller is found at, and the values restore is handed
\* when no capture came before: a plain offset and an encoded pair.
Offsets == {50, 300}
Positions == {300, combinedPosition(2, 300)}

Pages(hrefs, apps, kinds, wins) ==
  {[href |-> h, app |-> a, els |-> b, win |-> w] :
     h \in hrefs, a \in apps, b \in Bodies(kinds), w \in wins}

PageInit(pages) ==
  /\ StoreIdle
  /\ UiIdle
  /\ codec = NoCodec
  /\ dom \in pages
  /\ timers = <<>>
  /\ inj = NoCall

\* Before any call, the page is scrolled: the window, an element that
\* scrolls, or the document an element embeds.
ScrollWindow(y) ==
  /\ inj.fn = "none" /\ dom.win.scrollY = 0
  /\ dom.win.scrollHeight > dom.win.innerHeight
  /\ dom' = WindowScrollTo(dom, y)
  /\ UNCHANGED <<uiVars, storeVars, timers, inj, codec>>

ScrollElement(i, y) ==
  /\ inj.fn = "none" /\ dom.els[i].scrollTop = 0
  /\ dom.els[i].overflowY # "visible"
  /\ y <= dom.els[i].scrollHeight - dom.els[i].clientHeight
  /\ dom' = SetScrollTop(dom, i, y)
  /\ UNCHANGED <<uiVars, storeVars, timers, inj, codec>>

ScrollEmbedded(i, y) ==
  /\ inj.fn = "none" /\ dom.els[i].docTop = 0
  /\ dom.els[i].doc = "open"
  /\ dom' = SetDocTop(dom, i, y)
  /\ UNCHANGED <<uiVars, storeVars, timers, inj, codec>>

\* The popup saves a bookmark: the function of getScrollViaInjection runs.
Capture ==
  /\ inj.fn = "none"
  /\ LET r == capture(dom)
     IN inj' = [inj EXCEPT !.fn = "capture", !.isPDF = r.isPDF, !.via = r.via,
                           !.value = r.value, !.target = r.target, !.at = dom]
  /\ UNCHANGED <<uiVars, storeVars, dom, timers, codec>>

\* The tab loads the same page again: same layout, every offset 0, the
\* viewer at its first page.
Fresh(d) ==
  [d EXCEPT !.win.scrollY = 0,
            !.els = [i \in DOMAIN d.els |-> [d.els[i] EXCEPT !.scrollTop = 0, !.docTop = 0]],
            !.app.page = IF d.app.hasPage THEN 1 ELSE @]

Reload ==
  /\ inj.fn = "capture"
  /\ dom' = Fresh(dom)
  /\ inj' = [inj EXCEPT !.fn = "reload"]
  /\ UNCHANGED <<uiVars, storeVars, timers, codec>>

\* The popup jumps to a bookmark: the function of
\* scrollToPositionViaInjection runs with the bookmark's scrollPosition,
\* which is Number(x) || 0 of the value captured when one was.
Restore(pos) ==
  /\ inj.fn \in {"none", "capture", "reload"}
  /\ inj.fn # "none" => pos = OrZero(inj.value)
  /\ LET r == restore(dom, pos)
     IN /\ dom' = r.dom
        /\ timers' = r.timers
        /\ inj' = [fn |-> "restore", arg |-> pos, isPDF |-> r.isPDF, via |-> r.via,
                   value |-> Num(0), target |-> r.target, at |-> dom,
                   cap |-> IF inj.fn = "none" THEN NoCapture
                           ELSE [done |-> TRUE, reloaded |-> inj.fn = "reload",
                                 isPDF |-> inj.isPDF, via |-> inj.via, value |-> inj.value,
                                 target |-> inj.target, at |-> inj.at]]
  /\ UNCHANGED <<uiVars, storeVars, codec>>

\* The oldest pending callback runs.
Timeout ==
  /\ timers # <<>>
  /\ timers' = Tail(timers)
  /\ dom' = IF Head(timers).kind = "scroll"
            THEN SetScrollTop(dom, Head(timers).el, Head(timers).top)
            ELSE dom
  /\ UNCHANGED <<uiVars, storeVars, inj, codec>>

PageNext ==
  \/ \E y \in Offsets : ScrollWindow(y)
  \/ \E i \in 1..Len(dom.els), y \in Offsets : ScrollElement(i, y)
  \/ \E i \in 1..Len(dom.els), y \in Offsets : ScrollEmbedded(i, y)
  \/ Capture
  \/ Reload
  \/ \E pos \in IF inj.fn = "none" THEN Positions ELSE {OrZero(inj.value)} : Restore(pos)
  \/ Timeout

\* Plain documents: no signal of a paged viewer anywhere.
PlainPages == Pages({PlainHref}, {NoApp}, PlainKinds, {ShortWindow, TallWindow})
PlainSpec == PageInit(PlainPages) /\ [][PageNext]_vars

\* Documents a paged viewer may show, the viewer at its first or last page.
PdfPages ==
  Pages({PlainHref}, {NoApp, AppLoading, AppAt(1), AppAt(MaxPage)}, PdfKinds, {TallWindow})
  \cup Pages({PdfHref, MimeHref, ExtensionHref}, {NoApp}, PdfKinds, {TallWindow})
PdfSpec == PageInit(PdfPages) /\ [][PageNext]_vars

\* Documents whose viewer application shows a page; a callback handed to
\* setTimeout eventually runs.
ViewerPages == Pages({PlainHref}, {AppAt(1), AppAt(MaxPage)}, PdfKinds, {TallWindow})
ViewerSpec == PageInit(ViewerPages) /\ [][PageNext]_vars /\ WF_vars(Timeout)


\* ==== sortBookmarksByTimestamp (part_005) =================================
MaxList == 4       \* bookmarks in the array handed to the sort

\* Timestamps as the store writes them (Date.prototype.toISOString), and
\* new Date(s).getTime() of each in milliseconds; any other text is an
\* invalid date, whose time is NaN.
Timestamps ==
  {"1970-01-01T00:00:00.000Z", "1970-01-02T00:00:00.000Z", "1970-01-02T00:00:00.001Z"}
getTime(s) ==
  CASE s = "1970-01-01T00:00:00.000Z" -> Num(0)
    [] s = "1970-01-02T00:00:00.000Z" -> Num(86400000)
    [] s = "1970-01-02T00:00:00.001Z" -> Num(86400001)
    [] OTHER -> NaN

\* (a, b) => new Date(b.timestamp).getTime() - new Date(a.timestamp).getTime()
\* as Array.prototype.sort reads it: a NaN result counts as +0.
compareOldestFirst(a, b) ==
  IF getTime(a.timestamp).nan \/ getTime(b.timestamp).nan THEN 0
  ELSE getTime(a.timestamp).n - getTime(b.timestamp).n

compare(a, b) ==
  IF getTime(a.timestamp).nan \/ getTime(b.timestamp).nan THEN 0
  ELSE getTime(b.timestamp).n - getTime(a.timestamp).n

\* Array.prototype.sort is stable: x goes behind every element that does
\* not compare after it.
RECURSIVE Insert(_, _)
Insert(sorted, x) ==
  IF sorted = <<>> THEN <<x>>
  ELSE LET last == sorted[Len(sorted)]
       IN IF compare(last, x) <= 0 THEN Append(sorted, x)
          ELSE Append(Insert(SubSeq(sorted, 1, Len(sorted) - 1), x), last)

RECURSIVE Sort(_)
Sort(array) ==
  IF array = <<>> THEN <<>>
  ELSE Insert(Sort(SubSeq(array, 1, Len(array) - 1)), array[Len(array)])

\* return [...bookmarks].sort(...): the copy is sorted in place and
\* returned; bookmarks is the caller's array after the call.
sortBookmarksByTimestamp(array) ==
  LET copy == array
  IN [bookmarks |-> array, returned |-> Sort(copy)]

\* The arrays the sort is tried on: every order of up to MaxList bookmarks
\* with distinct ids, timestamps repeated or not.
SortInputs ==
  UNION {[1..n -> Timestamps] : n \in 0..MaxList}
ArrayOf(ts) == [i \in DOMAIN ts |-> [NoBookmark EXCEPT !.id = i, !.url = "p", !.timestamp = ts[i]]]

SortInit ==
  /\ StoreIdle
  /\ PageIdle
  /\ tab = NoTab /\ popupBookmarks = <<>> /\ ops = <<>> /\ outbox = <<>>
  /\ sorter \in {[NoSort EXCEPT !.step = "input", !.given = ArrayOf(ts), !.input = ArrayOf(ts)] :
                   ts \in SortInputs}

CallSort ==
  /\ sorter.step = "input"
  /\ LET r == sortBookmarksByTimestamp(sorter.input)
     IN sorter' = [sorter EXCEPT !.step = "sorted", !.input = r.bookmarks, !.output = r.returned]
  /\ UNCHANGED <<storeVars, pageVars, tab, popupBookmarks, ops, outbox>>

SortNext == CallSort

SortSpec == SortInit /\ [][SortNext]_vars

\* C24: sortBookmarksByTimestamp returns a permutation of its input in which
\* the timestamp of every element is at or after that of the element behind
\* it, and the array it was handed is as it was.
C24_NewestFirst ==
  sorter.step = "sorted" =>
    /\ Len(sorter.output) = Len(sorter.given)
    /\ \A i \in 1..Len(sorter.given) :
         Cardinality({j \in 1..Len(sorter.output) : sorter.output[j] = sorter.given[i]}) = 1
    /\ \A i \in 1..(Len(sorter.output) - 1) :
         getTime(sorter.output[i].timestamp).n >= getTime(sorter.output[i + 1].timestamp).n
    /\ sorter.input = sorter.given

\* Three bookmarks handed over oldest first, the two newest a millisecond
\* apart, came back in the opposite order.
C24_Witness ==
  /\ sorter.step = "sorted"
  /\ Len(sorter.given) = 3
  /\ getTime(sorter.given[1].timestamp).n < getTime(sorter.given[2].timestamp).n
  /\ getTime(sorter.given[2].timestamp).n < getTime(sorter.given[3].timestamp).n
  /\ sorter.output = <<sorter.given[3], sorter.given[2], sorter.given[1]>>
  /\ sorter.input = sorter.given

\* ==== the popup (part_006, 42-470) and the content script (part_004) =====
MaxOps == 2        \* clicks on Save, Jump and Delete in one run
MaxSent == 4       \* messages the popup hands to chrome.runtime.sendMessage in one run

PopupProcs == 1..MaxSent

\* currentTab.url, and the text of the name field at a click on Save.
TabUrl == "p"
NameTyped == "Intro"

\* typeof result === 'object': null, or an object with foundPosition.
NullValue == [t |-> "null", n |-> 0, s |-> ""]
ObjectValue(foundPosition) == [t |-> "object", n |-> foundPosition, s |-> ""]

\* What chrome.scripting.executeScript settles with: a rejection, or the
\* array of frame results, whose first entry may carry no result.
Rejected == [kind |-> "rejected", results |-> <<>>]
Results(rs) == [kind |-> "results", results |-> rs]

\* The tab runs the function capture injects, unless it refuses the
\* injection; a result that is not a finite number arrives as null.
executeCapture(t, d) ==
  IF t.access = "denied" THEN Rejected
  ELSE IF t.access = "silent" THEN Results(<<>>)
  ELSE LET value == capture(d).value
       IN Results(<<IF value.nan THEN NullValue ELSE NumberValue(value.n)>>)

\* getScrollViaInjection, from the settled executeScript to its return.
getScrollViaInjection(outcome) ==
  IF outcome.kind = "rejected" THEN 0
  ELSE LET result == IF outcome.results = <<>> THEN Undefined ELSE outcome.results[1]
           position == IF result.t = "number" THEN result.n ELSE 0
       IN IF result.t = "object" THEN OrZero(Num(result.n)) ELSE position

\* A handler a click started.  pc is where it is suspended, req the number
\* of the message it awaits the answer to, msgs the numbers of the messages
\* it sent, pos the position it jumps to or captured, outcome what
\* executeScript settled with, log what a jump did so far and answer what
\* the content script answered.
NoAnswer == [pending |-> TRUE]
Op(kind, at, id, pos) ==
  [kind |-> kind, pc |-> at, id |-> id, pos |-> pos, req |-> 0, msgs |-> <<>>, log |-> <<>>,
   outcome |-> Results(<<>>), answer |-> NoAnswer]

Settled(op) == op.pc \in {"done", "failed"}

\* The messages the handlers under way will still send: a save sends
\* saveBookmark and then getBookmarks, a delete's reload getBookmarks.
ToSend ==
  2 * Cardinality({k \in 1..Len(ops) : ops[k].pc = "capturing"})
  + Cardinality({k \in 1..Len(ops) : ops[k].pc \in {"saving", "deleting"}})

\* chrome.runtime.sendMessage(m): the message joins the ones on their way to
\* the background script and the handler awaits its answer.
SendMessage(k, m, pcAfter) ==
  /\ outbox' = Append(outbox, m)
  /\ ops' = [ops EXCEPT ![k].pc = pcAfter, ![k].req = Len(outbox) + 1,
                        ![k].msgs = Append(@, Len(outbox) + 1)]

\* bookmarks.find(b => b.id === bookmarkId)
find(list, id) ==
  IF \E i \in 1..Len(list) : list[i].id = id
  THEN list[CHOOSE i \in 1..Len(list) : list[i].id = id /\ \A j \in 1..(i - 1) : list[j].id # id]
  ELSE NoBookmark

\* The tabs the popup is opened on, each showing a plain page with a
\* scrolled menu, and the popup once initializePopup has loaded the list
\* and setupEventListeners has run.
Tabs ==
  {[access |-> a, listener |-> l, frozen |-> FALSE] :
     a \in {"open", "silent", "denied"}, l \in BOOLEAN}
PopupPages ==
  {[href |-> PlainHref, app |-> NoApp,
    els |-> <<[PlainKinds[3] EXCEPT !.scrollTop = 50]>>,
    win |-> [TallWindow EXCEPT !.scrollY = y]] : y \in {0, 300}}

PopupInit(stores, tabs) ==
  /\ store \in stores
  /\ nextId = FirstNewId
  /\ msg = [p \in PopupProcs |-> NoMsg]
  /\ pc = [p \in PopupProcs |-> "new"]
  /\ got = [p \in PopupProcs |-> Absent]
  /\ bookmarks = [p \in PopupProcs |-> <<>>]
  /\ bookmark = [p \in PopupProcs |-> NoBookmark]
  /\ next = [p \in PopupProcs |-> <<>>]
  /\ resp = [p \in PopupProcs |-> NoResp]
  /\ sent = [p \in PopupProcs |-> 0]
  /\ calls = [p \in PopupProcs |-> [get |-> 0, set |-> 0]]
  /\ before = [p \in PopupProcs |-> store]
  /\ alone = [p \in PopupProcs |-> TRUE]
  /\ missed = [p \in PopupProcs |-> {}]
  /\ lastWriter = [u \in Urls |-> 0]
  /\ dom \in PopupPages
  /\ timers = <<>>
  /\ inj = NoCall
  /\ codec = NoCodec
  /\ tab \in tabs
  /\ popupBookmarks = ArrayOrEmpty(store[storageKey(TabUrl)])
  /\ ops = <<>>
  /\ outbox = <<>>
  /\ sorter = NoSort

\* ---- saveCurrentPosition ------------------------------------------------
\* A click on Save with a name typed: the handler awaits getScrollViaInjection.
ClickSave ==
  /\ Len(ops) < MaxOps
  /\ Len(outbox) + ToSend + 2 <= MaxSent
  /\ ops' = Append(ops, Op("save", "capturing", NoId, 0))
  /\ UNCHANGED <<storeVars, pageVars, tab, popupBookmarks, outbox, sorter>>

\* executeScript settles, getScrollViaInjection returns and the handler
\* sends saveBookmark with the position it was given.
CaptureSettlesOrThrows(k) ==
  /\ ops[k].kind = "save" /\ ops[k].pc = "capturing"
  /\ ~tab.frozen
  /\ LET outcome == executeCapture(tab, dom)
         scrollPosition == getScrollViaInjection(outcome)
     IN IF outcome.kind = "rejected"
        THEN /\ ops' = [ops EXCEPT ![k].pc = "failed", ![k].outcome = outcome]
             /\ UNCHANGED outbox
        ELSE /\ outbox' = Append(outbox, [NoMsg EXCEPT !.action = "saveBookmark", !.url = TabUrl,
                                                       !.name = NameTyped,
                                                       !.scrollPosition = NumberValue(scrollPosition)])
             /\ ops' = [ops EXCEPT ![k].pc = "saving", ![k].req = Len(outbox) + 1,
                                   ![k].msgs = Append(@, Len(outbox) + 1),
                                   ![k].pos = scrollPosition, ![k].outcome = outcome]
  /\ UNCHANGED <<storeVars, pageVars, tab, popupBookmarks, sorter>>

CaptureSettles(k) ==
  /\ ops[k].kind = "save" /\ ops[k].pc = "capturing"
  /\ ~tab.frozen
  /\ LET outcome == executeCapture(tab, dom)
         scrollPosition == getScrollViaInjection(outcome)
     IN /\ outbox' = Append(outbox, [NoMsg EXCEPT !.action = "saveBookmark", !.url = TabUrl,
                                                  !.name = NameTyped,
                                                  !.scrollPosition = NumberValue(scrollPosition)])
        /\ ops' = [ops EXCEPT ![k].pc = "saving", ![k].req = Len(outbox) + 1,
                              ![k].msgs = Append(@, Len(outbox) + 1),
                              ![k].pos = scrollPosition, ![k].outcome = outcome]
  /\ UNCHANGED <<storeVars, pageVars, tab, popupBookmarks, sorter>>

\* loadBookmarks, up to its await: getBookmarks is sent for the tab's url.
LoadBookmarks(k) ==
  SendMessage(k, [NoMsg EXCEPT !.action = "getBookmarks", !.url = TabUrl], "loading")

\* The answer to saveBookmark arrives: the list is reloaded after a success.
SaveAnswered(k) ==
  /\ ops[k].kind = "save" /\ ops[k].pc = "saving"
  /\ pc[ops[k].req] = "done"
  /\ IF "success" \in DOMAIN resp[ops[k].req] /\ resp[ops[k].req].success
     THEN LoadBookmarks(k)
     ELSE ops' = [ops EXCEPT ![k].pc = "done"] /\ UNCHANGED outbox
  /\ UNCHANGED <<storeVars, pageVars, tab, popupBookmarks, sorter>>

\* ---- deleteBookmark -----------------------------------------------------
\* A click on the Delete button of a bookmark the popup lists.
ClickDelete(id) ==
  /\ Len(ops) < MaxOps
  /\ Len(outbox) + ToSend + 2 <= MaxSent
  /\ id \in IdsOf(popupBookmarks)
  /\ outbox' = Append(outbox, [NoMsg EXCEPT !.action = "deleteBookmark", !.url = TabUrl,
                                               !.bookmarkId = id])
  /\ ops' = Append(ops, [Op("delete", "deleting", id, 0)
                           EXCEPT !.req = Len(outbox) + 1, !.msgs = <<Len(outbox) + 1>>])
  /\ UNCHANGED <<storeVars, pageVars, tab, popupBookmarks, sorter>>

\* The answer to deleteBookmark arrives: the list is reloaded.
DeleteAnswered(k) ==
  /\ ops[k].kind = "delete" /\ ops[k].pc = "deleting"
  /\ pc[ops[k].req] = "done"
  /\ LoadBookmarks(k)
  /\ UNCHANGED <<storeVars, pageVars, tab, popupBookmarks, sorter>>

\* ---- loadBookmarks ------------------------------------------------------
\* The answer to getBookmarks arrives: bookmarks = response.bookmarks.
Loaded(k) ==
  /\ ops[k].pc = "loading"
  /\ pc[ops[k].req] = "done"
  /\ popupBookmarks' = IF "bookmarks" \in DOMAIN resp[ops[k].req]
                       THEN resp[ops[k].req].bookmarks ELSE popupBookmarks
  /\ ops' = [ops EXCEPT ![k].pc = "done"]
  /\ UNCHANGED <<storeVars, pageVars, tab, outbox, sorter>>

\* ---- jumpToBookmark -----------------------------------------------------
\* A click on the Jump button of a bookmark the popup lists:
\* scrollToPositionViaInjection is called with its scrollPosition.
ClickJump(id) ==
  /\ Len(ops) < MaxOps
  /\ id \in IdsOf(popupBookmarks)
  /\ ops' = Append(ops, [Op("jump", "injecting", id, find(popupBookmarks, id).scrollPosition)
                           EXCEPT !.log = <<"inject">>])
  /\ UNCHANGED <<storeVars, pageVars, tab, popupBookmarks, outbox, sorter>>

\* executeScript settles.  The function ran in the page: the jump is over.
\* It was rejected: scrollToPositionViaInjection rethrows and the catch of
\* jumpToBookmark sends scrollToPosition to the content script.
RestoreSettlesThenMessages(k) ==
  /\ ops[k].kind = "jump" /\ ops[k].pc = "injecting"
  /\ ~tab.frozen
  /\ IF tab.access = "denied"
     THEN /\ ops' = [ops EXCEPT ![k].pc = "messaging",
                                ![k].log = @ \o <<"rejected", "message">>]
          /\ UNCHANGED <<dom, timers>>
     ELSE /\ dom' = restore(dom, ops[k].pos).dom
          /\ timers' = timers \o restore(dom, ops[k].pos).timers
          /\ ops' = [ops EXCEPT ![k].pc = "messaging",
                                ![k].log = @ \o <<"resolved", "message">>]
  /\ UNCHANGED <<storeVars, inj, codec, tab, popupBookmarks, outbox, sorter>>

RestoreSettles(k) ==
  /\ ops[k].kind = "jump" /\ ops[k].pc = "injecting"
  /\ ~tab.frozen
  /\ IF tab.access = "denied"
     THEN /\ ops' = [ops EXCEPT ![k].pc = "messaging",
                                ![k].log = @ \o <<"rejected", "message">>]
          /\ UNCHANGED <<dom, timers>>
     ELSE /\ dom' = restore(dom, ops[k].pos).dom
          /\ timers' = timers \o restore(dom, ops[k].pos).timers
          /\ ops' = [ops EXCEPT ![k].pc = "done", ![k].log = Append(@, "resolved")]
  /\ UNCHANGED <<storeVars, inj, codec, tab, popupBookmarks, outbox, sorter>>

\* ---- the content script -------------------------------------------------
\* chrome.runtime.onMessage of the content script, for scrollToPosition.
Listener(k) ==
  /\ ops[k].pc = "messaging"
  /\ tab.listener /\ ~tab.frozen
  /\ LET position == OrZero(ToNumber(NumberValue(ops[k].pos)))
     IN dom' = WindowScrollTo(dom, position)
  /\ ops' = [ops EXCEPT ![k].pc = "done", ![k].log = Append(@, "answered"),
                        ![k].answer = [success |-> TRUE]]
  /\ UNCHANGED <<storeVars, timers, inj, codec, tab, popupBookmarks, outbox, sorter>>

\* No content script runs in the tab: sendMessage rejects and the second
\* catch of jumpToBookmark reports the failure.
NoReceiver(k) ==
  /\ ops[k].pc = "messaging"
  /\ ~tab.listener
  /\ ops' = [ops EXCEPT ![k].pc = "failed", ![k].log = Append(@, "unanswered")]
  /\ UNCHANGED <<storeVars, pageVars, tab, popupBookmarks, outbox, sorter>>

\* The page stops answering while a call is pending on it: neither an
\* injected function nor the content script runs from then on.
Freeze ==
  /\ ~tab.frozen
  /\ \E k \in 1..Len(ops) : ops[k].pc \in {"capturing", "injecting", "messaging"}
  /\ tab' = [tab EXCEPT !.frozen = TRUE]
  /\ UNCHANGED <<storeVars, pageVars, popupBookmarks, ops, outbox, sorter>>

\* ---- the background script ----------------------------------------------
\* The listener of the background script receives the next message sent.
Deliver(p) ==
  /\ p <= Len(outbox)
  /\ LET m == outbox[p]
     IN CASE m.action = "saveBookmark" ->
               ReceiveSave(p, m.url, [name |-> m.name, scrollPosition |-> m.scrollPosition])
          [] m.action = "getBookmarks" -> ReceiveGet(p, m.url)
          [] m.action = "deleteBookmark" -> ReceiveDelete(p, m.url, m.bookmarkId)

\* The popup and the background script: saves, deletes and the reloads
\* that follow them, on a tab that runs, mutes or refuses the injection.
SaveNext ==
  \/ ClickSave
  \/ \E id \in IdsOf(popupBookmarks) : ClickDelete(id)
  \/ \E k \in 1..Len(ops) : CaptureSettles(k)
  \/ \E k \in 1..Len(ops) : SaveAnswered(k)
  \/ \E k \in 1..Len(ops) : DeleteAnswered(k)
  \/ \E k \in 1..Len(ops) : Loaded(k)
  \/ \E p \in PopupProcs : Deliver(p)
  \/ \E p \in PopupProcs : Progress(p)

SaveSpec ==
  PopupInit(InitStores, {t \in Tabs : ~t.listener}) /\ [][SaveNext]_vars

\* The popup and the tab: jumps and captures, followed up to the message the
\* handler hands to the background script.  A settled executeScript, a
\* delivered message and a due timer are eventually acted on; nothing
\* obliges the page to go on answering.
JumpNext ==
  \/ ClickSave
  \/ \E id \in IdsOf(popupBookmarks) : ClickJump(id)
  \/ \E k \in 1..Len(ops) : CaptureSettles(k)
  \/ \E k \in 1..Len(ops) : RestoreSettles(k)
  \/ \E k \in 1..Len(ops) : Listener(k)
  \/ \E k \in 1..Len(ops) : NoReceiver(k)
  \/ Freeze
  \/ Timeout

JumpFairness ==
  /\ \A k \in 1..MaxOps :
       /\ WF_vars(k <= Len(ops) /\ CaptureSettles(k))
       /\ WF_vars(k <= Len(ops) /\ RestoreSettles(k))
       /\ WF_vars(k <= Len(ops) /\ Listener(k))
       /\ WF_vars(k <= Len(ops) /\ NoReceiver(k))
  /\ WF_vars(Timeout)

JumpSpec ==
  PopupInit({s \in InitStores : s[storageKey(TabUrl)].kind = "list"}, Tabs)
  /\ [][JumpNext]_vars /\ JumpFairness

\* ---- properties of the page side ----------------------------------------
\* The detector ran in the last call: the call took the plain branch.  The
\* fields of inj describe the capture until a restore is made.
DetectorRan == inj.fn # "none" /\ inj.via \in {"region", "window"}
CaptureRan == inj.fn \in {"capture", "reload"}
RestoreRan == inj.fn = "restore"

\* The candidates and the score as the claims state them, in hundredths.
Candidates(d) ==
  {i \in 1..Len(d.els) :
     /\ d.els[i].overflowY \in {"auto", "scroll"} \/ d.els[i].overflowX \in {"auto", "scroll"}
     /\ d.els[i].scrollHeight > d.els[i].clientHeight}
StatedScore(d, i) ==
  LET e == d.els[i]
      area == e.width * e.height
      percent == (area * 100) \div ((d.win.innerWidth * d.win.innerHeight) \div 100)
  IN Min(10000, e.scrollHeight - e.clientHeight)
     + (IF e.scrollTop > 0 THEN Min(20000, 10 * e.scrollTop) ELSE 0)
     + Min(10000, area \div 100)
     + Min(5000, percent)
BestStated(d) == Largest({StatedScore(d, i) : i \in Candidates(d)})

\* C12: whenever the window is scrolled past 50 and the document is taller
\* than the viewport, the detector (of capture and of restore) returns None,
\* whatever inner scrollable elements exist and whatever they would score.
C12_WindowPriority ==
  (DetectorRan /\ inj.at.win.scrollY > 50
     /\ inj.at.win.scrollHeight > inj.at.win.innerHeight)
  => (inj.target = None /\ inj.via = "window")

\* The window was at 300 over a scrolled content pane that scores far above
\* 50, and the detector answered None.
C12_Witness ==
  /\ CaptureRan /\ inj.via = "window" /\ inj.target = None
  /\ inj.at.win.scrollY = 300
  /\ \E i \in Candidates(inj.at) :
       inj.at.els[i].scrollTop = 300 /\ StatedScore(inj.at, i) > 10000

\* C13: when the window rule does not fire and candidates exist, the
\* detector returns a candidate of maximal score if that score is above 50
\* and None otherwise; no score exceeds 450; an unscrolled window over one
\* overflow:auto element of content height 2000, client height 500 and
\* scrollTop 300 selects that element.
C13_Selection ==
  (DetectorRan /\ inj.at.win.scrollY <= 50 /\ Candidates(inj.at) # {})
  => /\ BestStated(inj.at) <= 45000
     /\ BestStated(inj.at) > 5000 =>
          /\ inj.target \in Candidates(inj.at)
          /\ StatedScore(inj.at, inj.target) = BestStated(inj.at)
     /\ BestStated(inj.at) <= 5000 => inj.target = None
     /\ ( /\ Len(inj.at.els) = 1 /\ inj.at.win.scrollY = 0
          /\ inj.at.els[1].overflowY = "auto"
          /\ inj.at.els[1].scrollHeight = 2000 /\ inj.at.els[1].clientHeight = 500
          /\ inj.at.els[1].scrollTop = 300 )
        => inj.target = 1

\* Two candidates of different scores, the later one the higher, and the
\* detector of capture returned the later one.
C13_Witness ==
  /\ CaptureRan /\ inj.via = "region" /\ inj.target = 2
  /\ Candidates(inj.at) = {1, 2}
  /\ StatedScore(inj.at, 1) > 5000
  /\ StatedScore(inj.at, 2) > StatedScore(inj.at, 1)

\* The signals of a paged viewer as the claim lists them.  The URL hint of
\* capture also takes an extension URL that mentions pdf.
PdfElementSignal(d) ==
  \E i \in 1..Len(d.els) :
    \/ d.els[i].tag = "embed" /\ d.els[i].type \in {PDF_TYPE, CHROME_PDF_TYPE}
    \/ d.els[i].tag = "object" /\ d.els[i].type = PDF_TYPE
    \/ d.els[i].id = "plugin"
    \/ d.els[i].tag = "iframe" /\ d.els[i].src = "doc.pdf"
ViewerContainerSignal(d) ==
  \E i \in 1..Len(d.els) : d.els[i].cls = "pdfViewer" \/ d.els[i].id = "viewer"
UrlSignal(d, fn) ==
  \/ d.href \in {PdfHref, MimeHref}
  \/ fn = "capture" /\ d.href = ExtensionHref
SignalsFired(d, fn) ==
  (IF UrlSignal(d, fn) THEN 1 ELSE 0) + (IF PdfElementSignal(d) THEN 1 ELSE 0)
  + (IF d.app.exists THEN 1 ELSE 0) + (IF ViewerContainerSignal(d) THEN 1 ELSE 0)

\* C14: the paged-document detector of a call answers true exactly when at
\* least one of its signals fires (URL hint, PDF embed, object, plugin or
\* iframe element, viewer global, viewer container element).
C14_AnySignal ==
  /\ CaptureRan => (inj.isPDF <=> SignalsFired(inj.at, "capture") >= 1)
  /\ RestoreRan => (inj.isPDF <=> SignalsFired(inj.at, "restore") >= 1)

\* Capture answered true on a page where the only signal is one iframe.
C14_Witness ==
  /\ CaptureRan /\ inj.isPDF
  /\ SignalsFired(inj.at, "capture") = 1
  /\ Len(inj.at.els) = 1 /\ inj.at.els[1].tag = "iframe"


\* The offsets of every scroller of a page: the window, the elements and
\* the documents they embed.
OffsetsOf(d) ==
  [win |-> d.win.scrollY,
   els |-> [i \in DOMAIN d.els |-> d.els[i].scrollTop],
   docs |-> [i \in DOMAIN d.els |-> d.els[i].docTop]]

\* C15: on a document that is not paginated, capture returns the offset of
\* the target its detector returned (the region's, or the window's when it
\* returned None), and restore(v) sets the offset of the target its own
\* detector returned to v and changes the offset of no other scroller.
C15_PlainFrame ==
  /\ (CaptureRan /\ ~inj.isPDF) =>
       inj.value = Num(IF inj.target = None THEN inj.at.win.scrollY
                       ELSE inj.at.els[inj.target].scrollTop)
  /\ (RestoreRan /\ ~inj.isPDF) =>
       OffsetsOf(dom) =
         IF inj.target = None THEN [OffsetsOf(inj.at) EXCEPT !.win = inj.arg]
         ELSE [OffsetsOf(inj.at) EXCEPT !.els[inj.target] = inj.arg]

\* restore(300) moved an unscrolled region to 300 and left the window at 50
\* and a second scrolled element where they were.
C15_Witness ==
  /\ RestoreRan /\ ~inj.isPDF /\ inj.arg = 300
  /\ inj.target # None /\ inj.at.els[inj.target].scrollTop = 0
  /\ dom.els[inj.target].scrollTop = 300
  /\ dom.win.scrollY = 50
  /\ \E j \in 1..Len(dom.els) : j # inj.target /\ dom.els[j].scrollTop = 50

\* The viewer containers capture looks for, as the claim names them.
ViewerContainers(d) ==
  {i \in 1..Len(d.els) :
     d.els[i].cls \in {"pdfViewer", "viewerContainer"} \/ d.els[i].id = "viewer"}

\* C16: on a paginated document whose viewer application object exists,
\* with a current page, and where a viewer container is found, capture
\* returns (page - 1) * 10000 + the container's offset, whatever the
\* offsets of the window and of the other scrollers.
C16_ViewerCapture ==
  (CaptureRan /\ inj.isPDF /\ inj.at.app.exists /\ inj.at.app.hasPage
     /\ ViewerContainers(inj.at) # {})
  => /\ inj.target \in ViewerContainers(inj.at)
     /\ inj.value = Num((inj.at.app.page - 1) * 10000 + inj.at.els[inj.target].scrollTop)

\* The viewer was at a later page, its container at 300, the window at 50
\* and another scroller at 50: capture returned the encoded pair.
C16_Witness ==
  /\ CaptureRan /\ inj.via = "pdfjs" /\ inj.at.app.page > 1
  /\ inj.at.els[inj.target].scrollTop = 300
  /\ inj.at.win.scrollY = 50
  /\ \E j \in 1..Len(inj.at.els) : j # inj.target /\ inj.at.els[j].scrollTop = 50
  /\ inj.value = Num((inj.at.app.page - 1) * 10000 + 300)


\* The probes of capture on a paginated document as the claim orders them,
\* each with the offsets it yields when its signal is usable.
GenericContainers(d) ==
  {i \in 1..Len(d.els) :
     \/ d.els[i].id \in {"viewer", "plugin"}
     \/ d.els[i].cls \in {"pdfViewer", "viewerContainer"}
     \/ d.els[i].tag \in {"embed", "object", "iframe"}}
ContainerYield(d) ==
  {d.els[i].scrollTop : i \in {j \in GenericContainers(d) : d.els[j].scrollTop > 0}}
  \cup (IF d.win.scrollY > 0 THEN {d.win.scrollY} ELSE {})
EmbeddedYield(d) ==
  {d.els[i].docTop : i \in {j \in 1..Len(d.els) :
      d.els[j].type = PDF_TYPE /\ d.els[j].doc = "open" /\ d.els[j].docTop > 0}}

\* C17: on a paginated document capture returns the value of the first
\* probe, in the order viewer application object, plugin embed (window
\* scroll), generic scrollable containers, embedded sub-document, window
\* scroll, that yields a usable signal; a lower probe's offset is returned
\* only when every higher probe yields nothing, and 0 when none applies.
C17_FirstProbeWins ==
  (CaptureRan /\ inj.isPDF /\ (inj.at.app.exists => inj.at.app.hasPage))
  => IF inj.at.app.exists /\ ViewerContainers(inj.at) # {}
       THEN \E i \in ViewerContainers(inj.at) :
              inj.value = Num((inj.at.app.page - 1) * 10000 + inj.at.els[i].scrollTop)
     ELSE IF \E i \in 1..Len(inj.at.els) : inj.at.els[i].type = CHROME_PDF_TYPE
       THEN inj.value = Num(inj.at.win.scrollY)
     ELSE IF ContainerYield(inj.at) # {}
       THEN \E y \in ContainerYield(inj.at) : inj.value = Num(y)
     ELSE IF EmbeddedYield(inj.at) # {}
       THEN \E y \in EmbeddedYield(inj.at) : inj.value = Num(y)
     ELSE inj.value = Num(inj.at.win.scrollY)


\* A restore step that took the viewer integration, and the step of the
\* callback it registered.
ViewerRestoreStep == inj.fn # "restore" /\ inj'.fn = "restore" /\ inj'.via = "pdfjs"
SettledStep == inj.fn = "restore" /\ inj.via = "pdfjs" /\ timers # <<>> /\ timers' = <<>>

\* C18: with a matching viewer integration, restore(v) sets the viewer's
\* page to floor(v/10000)+1 only when it differs from the current page and
\* leaves it untouched otherwise; the container's offset is set to
\* v mod 10000 strictly after that step, by the delayed callback; and
\* eventually the container's offset equals v mod 10000.
C18_PageThenOffset ==
  /\ [][ /\ ViewerRestoreStep =>
              /\ dom'.app.page = (inj'.arg \div 10000) + 1
              /\ dom'.app.assigned =
                   dom.app.assigned + (IF dom.app.page # (inj'.arg \div 10000) + 1 THEN 1 ELSE 0)
              /\ OffsetsOf(dom') = OffsetsOf(dom)
              /\ timers' # <<>>
         /\ SettledStep =>
              /\ dom.app.page = (inj.arg \div 10000) + 1
              /\ dom'.app = dom.app
              /\ OffsetsOf(dom') =
                   [OffsetsOf(dom) EXCEPT !.els[inj.target] = inj.arg % 10000] ]_vars
  /\ ((RestoreRan /\ inj.via = "pdfjs")
        ~> (timers = <<>> /\ inj.target # None
              /\ OffsetsOf(dom).els[inj.target] = inj.arg % 10000))

\* restore(10300) found the viewer at another page with its container at
\* 50: the page is 2 after one assignment and the container is at 300.
C18_Witness ==
  /\ RestoreRan /\ inj.via = "pdfjs" /\ timers = <<>>
  /\ inj.arg = 10300 /\ inj.at.app.page # 2
  /\ inj.at.els[inj.target].scrollTop = 50
  /\ dom.app.page = 2 /\ dom.app.assigned = 1
  /\ dom.els[inj.target].scrollTop = 300


\* C19: if capture read v from target T (a region or the window) of a plain
\* page, restore(v) on a fresh load of that page (same layout, every offset
\* 0) applies v to the same target T, and T is back at the offset read.
C19_PlainRoundTrip ==
  (RestoreRan /\ inj.cap.done /\ inj.cap.reloaded /\ ~inj.cap.isPDF)
  => /\ inj.target = inj.cap.target
     /\ IF inj.cap.target = None THEN dom.win.scrollY = inj.cap.at.win.scrollY
        ELSE dom.els[inj.cap.target].scrollTop = inj.cap.at.els[inj.cap.target].scrollTop

\* C20: on a paginated document restore applies a value through the
\* integration capture read it with on that page: a value capture encoded
\* as a (page, offset) pair is decoded by restore, and a value capture
\* returned as a raw offset is not.
C20_RestoreMirrorsCapture ==
  (RestoreRan /\ inj.cap.done /\ ~inj.cap.reloaded /\ inj.cap.isPDF
     /\ (inj.at.app.exists => inj.at.app.hasPage))
  => /\ inj.cap.via = "pdfjs" <=> inj.via = "pdfjs"
     /\ inj.cap.via = "chromePdf" <=> inj.via = "chromePdf"

\* ---- the codec past the range of a page ---------------------------------
\* C26: decoding any encoded value >= 0 yields a page >= 1 and an offset in
\* 0..9999; an offset >= 10000 encoded with a page comes back as the page
\* raised by floor(offset / 10000) and the offset mod 10000.
C26_ExcessToPage ==
  (codec.step = "decoded" /\ codec.v >= 0)
  => /\ codec.pageNum >= 1
     /\ 0 <= codec.pageScroll /\ codec.pageScroll < 10000
     /\ codec.offset >= 10000 =>
          /\ codec.pageNum = codec.page + (codec.offset \div 10000)
          /\ codec.pageScroll = codec.offset % 10000

\* Two and a half pages' worth of offset came back as two pages more.
C26_Witness ==
  /\ codec.step = "decoded"
  /\ codec.offset = 25000
  /\ codec.page = 2
  /\ codec.pageNum = 4
  /\ codec.pageScroll = 5000

\* ---- what the region detector may return --------------------------------
\* The element overflows in a scrollable way on an axis and has more content
\* than it shows.
OverflowsScrollably(e) ==
  /\ e.overflowY \in {"auto", "scroll"} \/ e.overflowX \in {"auto", "scroll"}
  /\ e.scrollHeight > e.clientHeight

\* C25: an element the scrollable-region detector returns has overflow auto
\* or scroll on at least one axis and a scroll height above its client
\* height; the detector returns None when no element of the document has both.
C25_OnlyScrollable ==
  DetectorRan =>
    /\ inj.target # None => OverflowsScrollably(inj.at.els[inj.target])
    /\ (\A i \in DOMAIN inj.at.els : ~OverflowsScrollably(inj.at.els[i]))
         => inj.target = None

\* The detector returned a pane of a page that also holds an element with
\* more content than it shows whose overflow is visible.
C25_Witness ==
  /\ DetectorRan
  /\ inj.target # None
  /\ \E i \in DOMAIN inj.at.els :
       /\ inj.at.els[i].scrollHeight > inj.at.els[i].clientHeight
       /\ inj.at.els[i].overflowY = "visible"
       /\ inj.at.els[i].overflowX = "visible"

\* ---- the two copies of the detectors ------------------------------------
\* C30: on one page state the paginated-document detector of capture and the
\* one of restore give the same verdict, and the region detectors of the two
\* give the same region or both None: a restore made on the page as it was
\* captured takes the verdict and the region the capture took.
C30_SameDetectors ==
  (RestoreRan /\ inj.cap.done /\ inj.cap.at = inj.at)
  => /\ inj.isPDF = inj.cap.isPDF
     /\ (~inj.isPDF /\ ~inj.cap.isPDF) => inj.target = inj.cap.target

\* ---- restore on a paginated document without a viewer application -------
\* The integrations of restore as the claim names them, each the scroller
\* it addresses on page d, or None when it does not match.
ViewerAppMatches(d) ==
  /\ d.app.exists /\ d.app.hasPage
  /\ \E i \in 1..Len(d.els) : d.els[i].cls = "pdfViewer" \/ d.els[i].id = "viewer"
PluginEmbedMatches(d) ==
  \E i \in 1..Len(d.els) : d.els[i].tag = "embed" /\ d.els[i].type = CHROME_PDF_TYPE
\* the first PDF embed, or the first PDF object when there is no embed
SubDocumentHost(d) ==
  LET embeds == {i \in 1..Len(d.els) : d.els[i].tag = "embed" /\ d.els[i].type = PDF_TYPE}
      objects == {i \in 1..Len(d.els) : d.els[i].tag = "object" /\ d.els[i].type = PDF_TYPE}
  IN IF embeds # {} THEN First(embeds) ELSE First(objects)
SubDocumentMatches(d) ==
  SubDocumentHost(d) # None /\ d.els[SubDocumentHost(d)].doc = "open"
KnownContainer(d) ==
  LET byId == {i \in 1..Len(d.els) : d.els[i].id = "viewer"}
      byClass == {i \in 1..Len(d.els) : d.els[i].cls = "pdfViewer"}
      plugin == {i \in 1..Len(d.els) : d.els[i].id = "plugin"}
  IN IF byId # {} THEN First(byId)
     ELSE IF byClass # {} THEN First(byClass) ELSE First(plugin)
PageLikeScroller(d) ==
  First({i \in 1..Len(d.els) :
           /\ \/ Includes(d.els[i].cls, "page") \/ Includes(d.els[i].id, "page")
              \/ Includes(d.els[i].cls, "viewer")
           /\ d.els[i].scrollHeight > d.els[i].clientHeight})

\* The offsets restore(v) leaves on page d when the integrations are tried
\* in the claim's order, the window being the last resort.
AfterIntegrations(d, v) ==
  IF PluginEmbedMatches(d) THEN [OffsetsOf(d) EXCEPT !.win = v]
  ELSE IF SubDocumentMatches(d) THEN [OffsetsOf(d) EXCEPT !.docs[SubDocumentHost(d)] = v]
  ELSE IF KnownContainer(d) # None THEN [OffsetsOf(d) EXCEPT !.els[KnownContainer(d)] = v]
  ELSE IF PageLikeScroller(d) # None THEN [OffsetsOf(d) EXCEPT !.els[PageLikeScroller(d)] = v]
  ELSE [OffsetsOf(d) EXCEPT !.win = v]

\* C27: on a paginated document where no viewer-application
\* integration matches, restore(v) applies v to the first of plugin embed
\* (the window), embedded sub-document, known container and page-like
\* scroller that matches and to nothing else, passing over a sub-document
\* whose access throws, and to the window when none matches.
C27_ThenWindow ==
  (RestoreRan /\ inj.isPDF /\ ~ViewerAppMatches(inj.at))
  => OffsetsOf(dom) = AfterIntegrations(inj.at, inj.arg)

\* ---- durability of a delete ---------------------------------------------
\* Request p is a deleteBookmark answered {success:true}.
Deleted(p) ==
  /\ msg[p].action = "deleteBookmark"
  /\ pc[p] = "done"
  /\ resp[p] = [success |-> TRUE]

\* Request q for the url of p read the list before p's write and wrote its
\* own list after it.
StaleWriteAfter(p, q) ==
  /\ q # p
  /\ msg[q].action \in {"saveBookmark", "deleteBookmark"}
  /\ msg[q].url = msg[p].url
  /\ p \in missed[q]
  /\ pc[q] \in {"wrote", "done"}

\* C28 as stated: once deleteBookmark{url:U, bookmarkId:I} has answered
\* {success:true}, the list stored for U holds no entry with id I, whatever
\* the other requests for U do.
C28_DeleteDurable ==
  \A p \in Procs :
    Deleted(p) => msg[p].bookmarkId \notin IdsOf(ListOf(store[ExactKey(msg[p].url)]))

\* C28 as amended: once the delete has answered {success:true}, the list
\* stored for U holds an entry with id I only after a request for U that read
\* the list before the delete's write has written its own list after it.
C28_DurableUnlessStaleWrite ==
  \A p \in Procs :
    (Deleted(p) /\ ~\E q \in Procs : StaleWriteAfter(p, q))
    => msg[p].bookmarkId \notin IdsOf(ListOf(store[ExactKey(msg[p].url)]))

\* A delete of a stored id was answered while a save for the same url was in
\* flight; the save read after the delete's write and wrote last, and the id
\* is gone.
C28_Witness ==
  \E p, q \in Procs :
    /\ Deleted(p) /\ ~alone[p]
    /\ msg[p].bookmarkId \in IdsOf(ListOf(got[p]))
    /\ Saved(q) /\ msg[q].url = msg[p].url
    /\ p \notin missed[q] /\ lastWriter[msg[p].url] = q
    /\ msg[p].bookmarkId \notin IdsOf(ListOf(got[q]))
    /\ msg[p].bookmarkId \notin IdsOf(ListOf(store[ExactKey(msg[p].url)]))

\* ---- properties of the popup --------------------------------------------
\* The capture of save k is over, and what came of the injection.
Captured(k) == ops[k].kind = "save" /\ ops[k].pc # "capturing"
InjectionRejected(k) == ops[k].outcome.kind = "rejected"
NoNumericResult(k) ==
  /\ ops[k].outcome.kind = "results"
  /\ \/ ops[k].outcome.results = <<>>
     \/ ops[k].outcome.results[1].t # "number"

\* C22: when the injection of a capture is rejected or yields no numeric
\* result, getScrollViaInjection resolves to 0 and the save the popup
\* started goes on: saveBookmark is sent with scrollPosition 0 and answered
\* {success:true} with a bookmark at position 0.
C22_CaptureDegradesToZero ==
  \A k \in 1..Len(ops) :
    (Captured(k) /\ (InjectionRejected(k) \/ NoNumericResult(k))) =>
      /\ ops[k].pos = 0
      /\ ops[k].pc # "failed"
      /\ ops[k].msgs # <<>>
      /\ LET p == ops[k].msgs[1]
         IN /\ outbox[p].action = "saveBookmark"
            /\ outbox[p].scrollPosition = NumberValue(0)
            /\ pc[p] = "done" =>
                 /\ resp[p].success
                 /\ resp[p].bookmark.scrollPosition = 0
                 /\ resp[p].bookmark.name = NameTyped

\* On a tab that refuses the injection while its window is scrolled to 300,
\* a save ran to its end and the popup lists the bookmark at position 0.
C22_Witness ==
  \E k \in 1..Len(ops) :
    /\ Captured(k) /\ InjectionRejected(k)
    /\ dom.win.scrollY = 300
    /\ ops[k].pc = "done"
    /\ \E i \in 1..Len(popupBookmarks) :
         /\ popupBookmarks[i] = resp[ops[k].msgs[1]].bookmark
         /\ popupBookmarks[i].scrollPosition = 0

\* C29: whenever no handler of the popup awaits an answer, the popup's list
\* is the list stored for the tab's url.
C29_ViewIsStore ==
  (\A k \in 1..Len(ops) : Settled(ops[k]))
  => popupBookmarks = ListOf(store[ExactKey(TabUrl)])

\* What a jump may have done so far: the injection comes first, and the
\* message to the content script follows a rejection and nothing else.
JumpLogs ==
  {<<"inject">>,
   <<"inject", "resolved">>,
   <<"inject", "rejected", "message">>,
   <<"inject", "rejected", "message", "answered">>,
   <<"inject", "rejected", "message", "unanswered">>}

\* The content script handles the message of jump k in this step.
ListenerStep(k) == ops[k].pc = "messaging" /\ ops'[k].pc = "done"

\* C21: a jump to a bookmark of the popup's list attempts the injection
\* first; scrollToPosition is sent to the content script exactly when the
\* injection was rejected, and after the rejection; the listener sets the
\* window's offset to Number(position) || 0, leaves every other offset as it
\* is and answers {success:true}.
C21_InjectionThenMessage ==
  /\ [](\A k \in 1..Len(ops) :
          ops[k].kind = "jump" =>
            /\ ops[k].log \in JumpLogs
            /\ ops[k].pc = "messaging" <=> ops[k].log = <<"inject", "rejected", "message">>
            /\ ops[k].pos = find(popupBookmarks, ops[k].id).scrollPosition)
  /\ [][\A k \in 1..Len(ops) :
          ListenerStep(k) =>
            /\ OffsetsOf(dom') = [OffsetsOf(dom) EXCEPT !.win = ops[k].pos]
            /\ ops'[k].answer = [success |-> TRUE]
            /\ timers' = timers]_vars

\* The tab refused the injection of a jump to the bookmark at 200; the
\* content script moved the window from 300 to 200, left the menu at 50 and
\* answered.
C21_Witness ==
  \E k \in 1..Len(ops) :
    /\ ops[k].kind = "jump" /\ ops[k].pos = 200
    /\ ops[k].log = <<"inject", "rejected", "message", "answered">>
    /\ ops[k].answer = [success |-> TRUE]
    /\ dom.win.scrollY = 200
    /\ dom.els[1].scrollTop = 50
    /\ tab.access = "denied"

\* A capture or a restore of handler k is pending on the tab.
OnTab(k) == IF k <= Len(ops) THEN ops[k].pc \in {"capturing", "injecting"} ELSE FALSE

\* C23: every capture and every restore the popup starts eventually
\* completes, with a value or as denied, also when the page never answers:
\* no save and no jump stays pending on the tab forever.
C23_RoundTripBounded ==
  \A k \in 1..MaxOps : OnTab(k) ~> ~OnTab(k)

====
